---- MODULE Spec2Model ----
(***************************************************************************)
(* Model of the SWD bit decoder of libsigrokdecode (decoders/swd/pd.py).   *)
(*                                                                         *)
(* Registers that the Python code keeps as unbounded integers (request,    *)
(* ack, data) are modelled as the set of positions of their 1 bits, so a   *)
(* 32-bit word and the 128-bit alert sequence are exact.  Every shift and  *)
(* mask of the code is an operation on that set.                           *)
(*                                                                         *)
(* Annotations are modelled by their class and primary text; the sample    *)
(* range (startSample, samplenum) of an annotation is not modelled.        *)
(***************************************************************************)
EXTENDS Integers, Sequences, FiniteSets, TLC

\* ------------------------------------------------------------------ bounds
\* Highest value of the bit counter the line driver lets the reset state reach.
MaxResetBits == 52
\* Number of wrong bits the line driver may put into one selection alert.
MaxFlips == 1
\* Saturation value of the count of clock edges spent in dataWrite.
DwEdgeCap == 70
\* Number of activation bits that are recorded from the wire.
ActWireCap == 14

\* Saturation value of the count of consecutive high rising-edge samples.
HighRunCap == MaxResetBits + 8

\* ------------------------------------------------------- bit-set arithmetic
RECURSIVE Pow2(_)
Pow2(n) == IF n = 0 THEN 1 ELSE 2 * Pow2(n - 1)

\* The 1 bits of the number written as the hex digits nibs, most significant first.
HexBits(nibs) ==
    { p \in 0..(4 * Len(nibs) - 1) :
        (nibs[Len(nibs) - (p \div 4)] \div Pow2(p % 4)) % 2 = 1 }

\* reg >> 1
Shr1(reg) == { i - 1 : i \in reg \ {0} }

\* reg << n
Shl(reg, n) == { i + n : i \in reg }

\* swdio << pos
BitAt(swdio, pos) == IF swdio = 1 THEN {pos} ELSE {}

\* reg & (1 << pos) != 0
TestBit(reg, pos) == pos \in reg

\* The value of bit pos of reg.
BitOf(reg, pos) == IF pos \in reg THEN 1 ELSE 0

\* A variant of ShiftIn that fills the register from bit 0 upwards.
ShiftInMsbFirst(reg, swdio, top) == (Shl(reg, 1) \cup BitAt(swdio, 0)) \cap (0..top)

\* reg >>= 1; reg |= (swdio << top)
ShiftIn(reg, swdio, top) == Shr1(reg) \cup BitAt(swdio, top)

\* a ^ b on single bits
Xor(a, b) == IF a = b THEN 0 ELSE 1

\* --------------------------------------------------------- program constants
\* 0x80: the request register when the start bit has been seen
REQ_START == HexBits(<<8, 0>>)
\* 0xc9: bits 1..8 of the selection alert sequence, as a request byte
REQ_ALERT == HexBits(<<12, 9>>)
\* 0x19bc0ea2e3ddafe986852d956209f392
ALERT_SEQUENCE ==
    HexBits(<<1, 9, 11, 12, 0, 14, 10, 2, 14, 3, 13, 13, 10, 15, 14, 9,
              8, 6, 8, 5, 2, 13, 9, 5, 6, 2, 0, 9, 15, 3, 9, 2>>)
\* 0x58 and 0x50: the activation codes as the decoder assembles them
ACTIVATE_SWD == HexBits(<<5, 8>>)
ACTIVATE_JTAG == HexBits(<<5, 0>>)
\* bit 6 of a request: the stop bit; bit 1: APnDP; bit 2: RnW
STOP_BIT == 6
APNDP_BIT == 1
RNW_BIT == 2
REQUEST_BITS == 8
ACK_BITS == 3
DATA_BITS == 32
ALERT_BITS == 128
ALERT_SHIFT == 120
ACTIVATION_IDLE_BITS == 4
LINE_RESET_BITS == 50

\* DecoderState, plus the value handleUnknown stores: the method Decoder.reset,
\* which is no member of DecoderState and matches no case of handleClkEdge.
DecoderState ==
    { "unknown", "idle", "reset", "request", "ackTurnaround", "ack",
      "dataTurnaround", "dataRead", "dataWrite", "parity", "selectionAlert",
      "activation" }
DecoderResetMethod == "Decoder.reset"

\* ------------------------------------------------------------- line driver
\* The data words a target returns in a read.
DataWords ==
    { HexBits(<<0, 0, 0, 0, 0, 0, 4, 0>>),
      HexBits(<<8, 0, 0, 0, 0, 0, 0, 1>>),
      HexBits(<<1, 2, 3, 4, 5, 6, 7, 8>>),
      HexBits(<<15, 15, 15, 15, 15, 15, 15, 15>>) }

\* The request bytes a host sends: every byte with the start bit set, the stop
\* bit clear and the park bit set (half of them with the right parity), the
\* alert marker 0xc9, three bytes with the stop bit high (0xff, 0x41, 0xc1)
\* and one with the park bit low (0x0d).
HostRequests ==
    { r \in SUBSET (0..7) : 0 \in r /\ 6 \notin r /\ 7 \in r }
    \cup { REQ_ALERT, HexBits(<<15, 15>>), HexBits(<<4, 1>>), HexBits(<<12, 1>>),
           HexBits(<<0, 13>>) }

\* Positions of the alert sequence at which the line driver may send a wrong bit.
FlipPositions == { 9, 10, 31, 32, 64, 96, 126, 127 }

VARIABLES
    state, request, ack, data, computedParity, actualParity, bits,
    ann, py,
    clk, line, wire, wirePhase, alertPos, flips, lastAck, highRun, runUnk,
    dwEdges

decoderVars == <<state, request, ack, data, computedParity, actualParity, bits>>

\* The state of the JTAG chain decoder (decoders/jtag_adiv5/pd.py):
\*   chainState         Decoder.state
\*   devices            Decoder.devices, a list of JTAGDevice
\*   irSampleData       Decoder.irSampleData
\*   dataIn             Decoder.dataIn
\*   chainAnn           the annotations put while handling the last event
\*   drLengths          the list drLengths of the last handleDRChange
\*   decodeDataCalls    the calls of ADIv5Decoder.decodeData made so far
\*   raised             the exception that ended decoding, if any
\*   event, prevState   the last event given to decode() and the state it found
VARIABLES
    chainState, devices, irSampleData, dataIn, chainAnn, drLengths, decodeDataCalls, raised, event, prevState

\* An ADIv5Decoder with its JTAGDevice, taken on its own
\* (decoders/jtag_adiv5/adiv5.py):
\*   tapDevice          the JTAGDevice, with the decoder's state and dpVersion
\*   select             ADIv5Decoder.select, an ADIv5DPSelect
\*   transaction        ADIv5Decoder.transaction
\*   transactionNumber  ADIv5Decoder.transactionNumber
\*   ap                 ADIv5Decoder.ap, AP index -> kind of the ADIv5AP
\*   tapAnn             the annotations put by the last call
\*   tapRaised          the exception the last call ended with, if any
\*   exchanges          the calls of decodeData made so far
\* and the register decoders, called on their own:
\*   regCall            the function called and its arguments
\*   regResult          what it returned
VARIABLES
    tapDevice, select, transaction, transactionNumber, ap, tapAnn, tapRaised,
    exchanges, regCall, regResult

tapVars ==
    <<tapDevice, select, transaction, transactionNumber, ap, tapAnn, tapRaised,
      exchanges, regCall, regResult>>
chainVars ==
    <<chainState, devices, irSampleData, dataIn, chainAnn, drLengths, decodeDataCalls, raised, event, prevState>>
swdVars ==
    <<state, request, ack, data, computedParity, actualParity, bits, ann, py,
      clk, line, wire, wirePhase, alertPos, flips, lastAck, highRun, runUnk,
      dwEdges>>
\* The ADIv5 register-model tracker (decoders/adiv5/pd.py):
\*   dp             Decoder.dp, DP index -> ADIv5DP
\*   transactCount  Decoder.transactCount
\*   trackAnn       the annotations put by the last call of decode()
\*   trackRaised    the exception that ended decoding, if any
\*   transacted     the data of the last call of decode()
VARIABLES
    dp, transactCount, trackAnn, trackRaised, transacted

trackVars == <<dp, transactCount, trackAnn, trackRaised, transacted>>

\* Decoder.__init__ and start(): no DP is known and nothing has been decoded.
TrackerStart ==
    /\ dp = <<>>
    /\ transactCount = 0
    /\ trackAnn = <<>>
    /\ trackRaised = "none"
    /\ transacted = <<>>

vars == <<swdVars, chainVars, tapVars, trackVars>>

\* None, for an attribute that holds a bitstring
None == <<-1>>
\* An attribute that has not been assigned (or was deleted)
Unset == -1
\* No event has been given to decode()
NoEvent == [action |-> "NONE", name |-> "", bits |-> <<>>]

\* Decoder.__init__ followed by Decoder.start: reset() on an empty list
ChainStart ==
    /\ chainState = "inactive"
    /\ devices = <<>>
    /\ irSampleData = None
    /\ dataIn = None
    /\ chainAnn = <<>>
    /\ drLengths = <<>>
    /\ decodeDataCalls = <<>>
    /\ raised = "none"
    /\ event = NoEvent
    /\ prevState = "inactive"
\* ------------------------------------------------------------ annotations
\* An annotation: its class, its primary text and, for a DATA annotation, the
\* hex digits the text is made of.
Ann(cls, text) == [cls |-> cls, text |-> text, hex |-> <<>>]
NoAnn == Ann("NONE", "")
NoPy == "NONE"

\* f'{self.data:08x}': the eight hex digits of data, most significant first
Hex8(word) ==
    [ k \in 1..8 |->
        LET lo == 4 * (8 - k)
        IN  BitOf(word, lo) + 2 * BitOf(word, lo + 1) + 4 * BitOf(word, lo + 2)
              + 8 * BitOf(word, lo + 3) ]

\* [A.DATA, [f'{self.data:08x}']]
DataAnn(word) == [cls |-> "DATA", text |-> "{data:08x}", hex |-> Hex8(word)]

\* The number a register of at most three bits holds.
AckValue(reg) == BitOf(reg, 0) + 2 * BitOf(reg, 1) + 4 * BitOf(reg, 2)

\* A variant of AckName with the WAIT and FAULT codes exchanged.
AckNameSwapped(reg) ==
    CASE AckValue(reg) = 1 -> "OK"
      [] AckValue(reg) = 4 -> "WAIT"
      [] AckValue(reg) = 2 -> "FAULT"
      [] AckValue(reg) = 7 -> "NO-RESPONSE"
      [] OTHER -> "UNKNOWN"

\* {1: 'OK', 2: 'WAIT', 4: 'FAULT', 7: 'NO-RESPONSE'}.get(self.ack, 'UNKNOWN')
AckName(reg) ==
    CASE AckValue(reg) = 1 -> "OK"
      [] AckValue(reg) = 2 -> "WAIT"
      [] AckValue(reg) = 4 -> "FAULT"
      [] AckValue(reg) = 7 -> "NO-RESPONSE"
      [] OTHER -> "UNKNOWN"

\* 'DP' if (self.request & (1 << 1)) == 0 else 'AP'
TargetOf(req) == IF ~TestBit(req, APNDP_BIT) THEN "DP" ELSE "AP"

\* A variant of ParityVerdict that reports odd parity as correct.
ParityVerdictOdd(computed, actual) == IF computed # actual THEN "OK" ELSE "ERROR"

\* 'OK' if self.computedParity == self.actualParity else 'ERROR'
ParityVerdict(computed, actual) == IF computed = actual THEN "OK" ELSE "ERROR"

\* No ADIv5Decoder has been constructed and no register decoder called.
TapAbsent ==
    /\ tapDevice = <<>>
    /\ select = <<>>
    /\ transaction = <<>>
    /\ transactionNumber = 0
    /\ ap = <<>>
    /\ tapAnn = <<>>
    /\ tapRaised = "none"
    /\ exchanges = <<>>
    /\ regCall = <<>>
    /\ regResult = <<>>

\* ------------------------------------------------------------------- Init
\* reset() and start(): strict_start = 'yes' leaves the state unknown,
\* strict_start = 'no' starts in idle.  The clock may rest at either level.
Init ==
    /\ state \in {"unknown", "idle"}
    /\ request = {}
    /\ ack = {}
    /\ data = {}
    /\ computedParity = 0
    /\ actualParity = 0
    /\ bits = 0
    /\ ann = NoAnn
    /\ py = NoPy
    /\ clk \in {0, 1}
    /\ line = 0
    /\ wire = <<>>
    /\ wirePhase = "none"
    /\ alertPos = 0
    /\ flips = 0
    /\ lastAck = "none"
    /\ highRun = 0
    /\ runUnk = FALSE
    /\ dwEdges = 0
    /\ ChainStart
    /\ TapAbsent
    /\ TrackerStart

\* --------------------------------------------------- the line, edge by edge
\* self.wait({0: 'e'}) returns at every edge of the clock, so the clock
\* level alternates.
NextClk == 1 - clk

Min(a, b) == IF a < b THEN a ELSE b

\* What every edge does to the record of the line: the level, the count of
\* consecutive high samples on rising edges, and whether that run of highs
\* began while the decoder was in the unknown state.
Tick(swdio) ==
    /\ clk' = NextClk
    /\ line' = swdio
    /\ highRun' = IF NextClk = 1
                  THEN (IF swdio = 1 THEN Min(highRun + 1, HighRunCap) ELSE 0)
                  ELSE highRun
    /\ runUnk' = IF NextClk = 1
                 THEN (IF swdio = 1
                       THEN (IF highRun = 0 THEN state = "unknown" ELSE runUnk)
                       ELSE FALSE)
                 ELSE runUnk

\* The bits a word of the set words may have at position Len(sent), given
\* that the bits sent so far are its low bits.
NextBits(words, sent) ==
    { BitOf(w, Len(sent)) :
        w \in { v \in words : \A k \in 1..Len(sent) : BitOf(v, k - 1) = sent[k] } }

\* The line keeps its level on an edge at which the decoder does not sample.
Hold == {line}
AnyBit == {0, 1}
\* ------------------------------------------------------------ the handlers
\* Each handler is given the clock level and data level of the edge and sets
\* the decoder's fields and the annotation the edge emits.

processRequest ==
    IF request = REQ_ALERT
    THEN /\ state' = "selectionAlert"
         /\ request' = Shl(request, ALERT_SHIFT)
         /\ bits' = bits + 1
         /\ ann' = NoAnn
         /\ UNCHANGED <<ack, data, computedParity, actualParity>>
    ELSE IF TestBit(request, STOP_BIT)
    THEN /\ state' = "reset"
         /\ ann' = NoAnn
         /\ UNCHANGED <<request, ack, data, computedParity, actualParity, bits>>
    ELSE /\ ann' = IF TestBit(request, RNW_BIT)
                   THEN Ann("READ", IF TargetOf(request) = "DP" THEN "DP READ" ELSE "AP READ")
                   ELSE Ann("WRITE", IF TargetOf(request) = "DP" THEN "DP WRITE" ELSE "AP WRITE")
         /\ state' = "ackTurnaround"
         /\ UNCHANGED <<request, ack, data, computedParity, actualParity, bits>>

\* A variant of AckNextState that opens the data phase after a WAIT as well.
AckNextStateWaitData(ackReg, req) ==
    CASE AckValue(ackReg) \in {1, 2} ->
            IF TestBit(req, RNW_BIT) THEN "dataRead" ELSE "dataTurnaround"
      [] AckValue(ackReg) = 4 -> "idle"
      [] AckValue(ackReg) = 7 -> "idle"
      [] OTHER -> "unknown"

\* The state processAck moves to.
AckNextState(ackReg, req) ==
    CASE AckValue(ackReg) = 1 ->
            IF TestBit(req, RNW_BIT) THEN "dataRead" ELSE "dataTurnaround"
      [] AckValue(ackReg) = 2 -> "idle"
      [] AckValue(ackReg) = 4 -> "idle"
      [] AckValue(ackReg) = 7 -> "idle"
      [] OTHER -> "unknown"

processAck ==
    /\ state' = AckNextState(ack, request)
    /\ IF AckValue(ack) = 1 /\ TestBit(request, RNW_BIT)
       THEN data' = {} /\ computedParity' = 0 /\ bits' = 0
       ELSE UNCHANGED <<data, computedParity, bits>>
    /\ UNCHANGED <<request, ack, actualParity>>

handleUnknown(swclk, swdio) ==
    IF swclk = 1 /\ swdio = 1
    THEN /\ bits' = 1
         /\ state' = DecoderResetMethod
         /\ ann' = NoAnn
         /\ UNCHANGED <<request, ack, data, computedParity, actualParity>>
    ELSE ann' = NoAnn /\ UNCHANGED decoderVars

handleIdle(swclk, swdio) ==
    IF swclk = 1 /\ swdio = 1
    THEN /\ state' = "request"
         /\ request' = REQ_START
         /\ bits' = 1
         /\ ann' = Ann("IDLE", "IDLE")
         /\ UNCHANGED <<ack, data, computedParity, actualParity>>
    ELSE ann' = NoAnn /\ UNCHANGED decoderVars

handleReset(swclk, swdio) ==
    IF swclk = 1
    THEN IF swdio = 1
         THEN /\ bits' = bits + 1
              /\ ann' = NoAnn
              /\ UNCHANGED <<state, request, ack, data, computedParity, actualParity>>
         ELSE IF bits >= LINE_RESET_BITS
         THEN /\ state' = "idle"
              /\ ann' = Ann("RESET", "LINE RESET")
              /\ UNCHANGED <<request, ack, data, computedParity, actualParity, bits>>
         ELSE /\ state' = "unknown"
              /\ ann' = NoAnn
              /\ UNCHANGED <<request, ack, data, computedParity, actualParity, bits>>
    ELSE ann' = NoAnn /\ UNCHANGED decoderVars

handleRequest(swclk, swdio) ==
    IF swclk = 1
    THEN /\ request' = ShiftIn(request, swdio, REQUEST_BITS - 1)
         /\ bits' = bits + 1
         /\ ann' = NoAnn
         /\ UNCHANGED <<state, ack, data, computedParity, actualParity>>
    ELSE IF bits = REQUEST_BITS
    THEN processRequest
    ELSE ann' = NoAnn /\ UNCHANGED decoderVars

handleAckTurnaround(swclk, swdio) ==
    IF swclk = 0
    THEN /\ bits' = 1
         /\ ack' = BitAt(swdio, ACK_BITS - 1)
         /\ state' = "ack"
         /\ ann' = NoAnn
         /\ UNCHANGED <<request, data, computedParity, actualParity>>
    ELSE ann' = NoAnn /\ UNCHANGED decoderVars

handleAck(swclk, swdio) ==
    IF swclk = 0
    THEN /\ ack' = ShiftIn(ack, swdio, ACK_BITS - 1)
         /\ bits' = bits + 1
         /\ ann' = NoAnn
         /\ UNCHANGED <<state, request, data, computedParity, actualParity>>
    ELSE IF bits = ACK_BITS
    THEN /\ ann' = Ann("ACK", AckName(ack))
         /\ processAck
    ELSE ann' = NoAnn /\ UNCHANGED decoderVars

handleDataTurnaround(swclk, swdio) ==
    IF swclk = 1
    THEN /\ bits' = 0
         /\ data' = {}
         /\ computedParity' = 0
         /\ state' = "dataWrite"
         /\ ann' = NoAnn
         /\ UNCHANGED <<request, ack, actualParity>>
    ELSE ann' = NoAnn /\ UNCHANGED decoderVars

handleDataRead(swclk, swdio) ==
    IF swclk = 0
    THEN /\ IF bits < DATA_BITS
            THEN /\ data' = ShiftIn(data, swdio, DATA_BITS - 1)
                 /\ computedParity' = Xor(computedParity, swdio)
                 /\ UNCHANGED <<actualParity, state>>
            ELSE /\ actualParity' = swdio
                 /\ state' = "parity"
                 /\ UNCHANGED <<data, computedParity>>
         /\ bits' = bits + 1
         /\ ann' = NoAnn
         /\ UNCHANGED <<request, ack>>
    ELSE /\ ann' = IF bits = DATA_BITS THEN DataAnn(data) ELSE NoAnn
         /\ UNCHANGED decoderVars

handleParity ==
    /\ ann' = Ann("PARITY", IF ParityVerdict(computedParity, actualParity) = "OK"
                            THEN "PARITY OK" ELSE "PARITY ERROR")
    /\ state' = "idle"
    /\ UNCHANGED <<request, ack, data, computedParity, actualParity, bits>>
\* self.request <<= 1; self.request |= swdio; self.request &= 0xff
ShiftLeftIn(reg, swdio) == (Shl(reg, 1) \cup BitAt(swdio, 0)) \cap (0..(REQUEST_BITS - 1))

\* A variant of AlertMatches that compares only the low 64 bits.
AlertMatchesLow(reg) == reg \cap (0..63) = ALERT_SEQUENCE \cap (0..63)

\* self.request == 0x19bc0ea2e3ddafe986852d956209f392
AlertMatches(reg) == reg = ALERT_SEQUENCE

handleSelectionAlert(swclk, swdio) ==
    IF swclk = 1
    THEN IF bits = ALERT_BITS
         THEN IF AlertMatches(request)
              THEN /\ state' = "activation"
                   /\ request' = BitAt(swdio, 0)
                   /\ bits' = 1
                   /\ ann' = Ann("ENABLE", "ALERT SEQUENCE")
                   /\ UNCHANGED <<ack, data, computedParity, actualParity>>
              ELSE /\ state' = "unknown"
                   /\ ann' = Ann("ERROR", "INVALID SEQUENCE")
                   /\ UNCHANGED <<request, ack, data, computedParity, actualParity, bits>>
         ELSE /\ request' = ShiftIn(request, swdio, ALERT_BITS - 1)
              /\ bits' = bits + 1
              /\ ann' = NoAnn
              /\ UNCHANGED <<state, ack, data, computedParity, actualParity>>
    ELSE ann' = NoAnn /\ UNCHANGED decoderVars

handleActivation(swclk, swdio) ==
    IF swclk = 1
    THEN IF bits < ACTIVATION_IDLE_BITS
         THEN IF swdio = 1
              THEN /\ state' = "unknown"
                   /\ ann' = Ann("ERROR", "INVALID IDLE")
                   /\ UNCHANGED <<request, ack, data, computedParity, actualParity, bits>>
              ELSE /\ bits' = bits + 1
                   /\ ann' = NoAnn
                   /\ UNCHANGED <<state, request, ack, data, computedParity, actualParity>>
         ELSE IF request = ACTIVATE_SWD
         THEN /\ state' = "reset"
              /\ bits' = 0
              /\ ann' = Ann("ENABLE", "ACTIVATE SWD")
              /\ UNCHANGED <<request, ack, data, computedParity, actualParity>>
         ELSE IF request = ACTIVATE_JTAG
         THEN /\ state' = "unknown"
              /\ ann' = Ann("ENABLE", "ACTIVATE JTAG")
              /\ UNCHANGED <<request, ack, data, computedParity, actualParity, bits>>
         ELSE /\ request' = ShiftLeftIn(request, swdio)
              /\ ann' = NoAnn
              /\ UNCHANGED <<state, ack, data, computedParity, actualParity, bits>>
    ELSE ann' = NoAnn /\ UNCHANGED decoderVars

\* handleClkEdge when no case of its match statement equals self.state
\* (dataWrite has no case; Decoder.reset is no DecoderState): nothing is done.
handleNoCase ==
    /\ ann' = NoAnn
    /\ UNCHANGED decoderVars
\* ---------------------------------------------------------------- actions
\* One action per case of handleClkEdge.  Each draws the data level of the
\* edge, runs the handler, and keeps the record of what was on the wire:
\*   wire, wirePhase  the bits sampled in the current phase, oldest first (in a
\*                    data phase: the 32 data bits and then the parity bit)
\*   alertPos, flips  the next position of the alert sequence and the number
\*                    of wrong bits sent in it so far
\*   lastAck          the text of the most recent ACK annotation
\*   dwEdges          the clock edges seen while in dataWrite

\* The activation bit strings a host sends after the alert sequence.
ActSequences ==
    { <<0, 0, 0, 0, 0, 1, 0, 1, 1, 0, 0, 0, 1>>,
      <<0, 0, 0, 0, 0, 1, 0, 1, 0, 0, 0, 0, 0>>,
      <<1, 0, 0, 0, 0, 1, 0, 1, 1, 0, 0, 0, 1>>,
      <<0, 0, 1>>,
      <<0, 0, 0, 0, 1, 1, 1, 1, 1, 1, 1, 1, 1, 1>>,
      <<0, 0, 0, 0, 1, 1, 0, 1, 0, 1, 1, 0, 0, 0>> }

\* The levels a host following one of the strings seqs may send next, having
\* sent the bits of sent; any level once the string is exhausted.
NextSeqBits(seqs, sent) ==
    LET following == { t \in seqs : /\ Len(t) > Len(sent)
                                    /\ SubSeq(t, 1, Len(sent)) = sent }
    IN  IF following = {} THEN AnyBit ELSE { t[Len(sent) + 1] : t \in following }

Record(swdio, cap) == IF Len(wire) < cap THEN Append(wire, swdio) ELSE wire

HandleUnknown ==
    /\ state = "unknown"
    /\ \E swdio \in (IF NextClk = 1 THEN AnyBit ELSE Hold) :
         /\ Tick(swdio)
         /\ handleUnknown(NextClk, swdio)
    /\ UNCHANGED <<chainVars, tapVars, trackVars, py, wire, wirePhase, alertPos, flips, lastAck, dwEdges>>

HandleIdle ==
    /\ state = "idle"
    /\ \E swdio \in (IF NextClk = 1 THEN AnyBit ELSE Hold) :
         /\ Tick(swdio)
         /\ handleIdle(NextClk, swdio)
         /\ IF NextClk = 1 /\ swdio = 1
            THEN wire' = <<1>> /\ wirePhase' = "req"
            ELSE UNCHANGED <<wire, wirePhase>>
    /\ UNCHANGED <<chainVars, tapVars, trackVars, py, alertPos, flips, lastAck, dwEdges>>

HandleReset ==
    /\ state = "reset"
    /\ \E swdio \in (IF NextClk = 1
                     THEN {0} \cup (IF bits < MaxResetBits THEN {1} ELSE {})
                     ELSE Hold) :
         /\ Tick(swdio)
         /\ handleReset(NextClk, swdio)
    /\ UNCHANGED <<chainVars, tapVars, trackVars, py, wire, wirePhase, alertPos, flips, lastAck, dwEdges>>

HandleRequest ==
    /\ state = "request"
    /\ \E swdio \in (IF NextClk = 1 THEN NextBits(HostRequests, wire) ELSE Hold) :
         /\ Tick(swdio)
         /\ handleRequest(NextClk, swdio)
         /\ wire' = IF NextClk = 1 THEN Record(swdio, REQUEST_BITS) ELSE wire
    /\ IF state' = "selectionAlert"
       THEN alertPos' = Len(wire) + 1 /\ flips' = 0
       ELSE UNCHANGED <<alertPos, flips>>
    /\ UNCHANGED <<chainVars, tapVars, trackVars, py, wirePhase, lastAck, dwEdges>>

HandleAckTurnaround ==
    /\ state = "ackTurnaround"
    /\ \E swdio \in (IF NextClk = 0 THEN AnyBit ELSE Hold) :
         /\ Tick(swdio)
         /\ handleAckTurnaround(NextClk, swdio)
         /\ IF NextClk = 0
            THEN wire' = <<swdio>> /\ wirePhase' = "ack"
            ELSE UNCHANGED <<wire, wirePhase>>
    /\ UNCHANGED <<chainVars, tapVars, trackVars, py, alertPos, flips, lastAck, dwEdges>>

HandleAck ==
    /\ state = "ack"
    /\ \E swdio \in (IF NextClk = 0 THEN AnyBit ELSE Hold) :
         /\ Tick(swdio)
         /\ handleAck(NextClk, swdio)
         /\ wire' = IF NextClk = 0 THEN Record(swdio, ACK_BITS + 1) ELSE wire
    /\ lastAck' = IF ann'.cls = "ACK" THEN ann'.text ELSE lastAck
    /\ UNCHANGED <<chainVars, tapVars, trackVars, py, wirePhase, alertPos, flips, dwEdges>>

HandleDataTurnaround ==
    /\ state = "dataTurnaround"
    /\ \E swdio \in Hold :
         /\ Tick(swdio)
         /\ handleDataTurnaround(NextClk, swdio)
    /\ dwEdges' = IF state' = "dataWrite" THEN 0 ELSE dwEdges
    /\ UNCHANGED <<chainVars, tapVars, trackVars, py, wire, wirePhase, alertPos, flips, lastAck>>

\* The word being transferred so far, when a data phase is under way.
DataSent == IF wirePhase = "data" THEN wire ELSE <<>>

HandleDataRead ==
    /\ state = "dataRead"
    /\ \E swdio \in (IF NextClk = 1 THEN Hold
                     ELSE IF Len(DataSent) < DATA_BITS
                     THEN NextBits(DataWords, DataSent)
                     ELSE AnyBit) :
         /\ Tick(swdio)
         /\ handleDataRead(NextClk, swdio)
         /\ IF NextClk = 0 /\ Len(DataSent) <= DATA_BITS
            THEN wire' = Append(DataSent, swdio) /\ wirePhase' = "data"
            ELSE UNCHANGED <<wire, wirePhase>>
    /\ UNCHANGED <<chainVars, tapVars, trackVars, py, alertPos, flips, lastAck, dwEdges>>

HandleParity ==
    /\ state = "parity"
    /\ \E swdio \in Hold :
         /\ Tick(swdio)
         /\ handleParity
    /\ UNCHANGED <<chainVars, tapVars, trackVars, py, wire, wirePhase, alertPos, flips, lastAck, dwEdges>>
\* The level the alert sequence has at its position alertPos.
AlertBit == BitOf(ALERT_SEQUENCE, alertPos)

HandleSelectionAlert ==
    /\ state = "selectionAlert"
    /\ \E swdio \in (IF NextClk = 0 THEN Hold
                     ELSE IF alertPos >= ALERT_BITS THEN AnyBit
                     ELSE {AlertBit} \cup (IF flips < MaxFlips /\ alertPos \in FlipPositions
                                           THEN {1 - AlertBit} ELSE {})) :
         /\ Tick(swdio)
         /\ handleSelectionAlert(NextClk, swdio)
         /\ IF NextClk = 1
            THEN /\ alertPos' = Min(alertPos + 1, ALERT_BITS + 1)
                 /\ flips' = IF alertPos < ALERT_BITS /\ swdio # AlertBit
                             THEN flips + 1 ELSE flips
            ELSE UNCHANGED <<alertPos, flips>>
         /\ IF state' = "activation"
            THEN wire' = <<swdio>> /\ wirePhase' = "act"
            ELSE UNCHANGED <<wire, wirePhase>>
    /\ UNCHANGED <<chainVars, tapVars, trackVars, py, lastAck, dwEdges>>

HandleActivation ==
    /\ state = "activation"
    /\ \E swdio \in (IF NextClk = 1 THEN NextSeqBits(ActSequences, wire) ELSE Hold) :
         /\ Tick(swdio)
         /\ handleActivation(NextClk, swdio)
         /\ wire' = IF NextClk = 1 THEN Record(swdio, ActWireCap) ELSE wire
    /\ UNCHANGED <<chainVars, tapVars, trackVars, py, wirePhase, alertPos, flips, lastAck, dwEdges>>

\* dataWrite: the host sends a data word and its parity bit on rising edges
\* and then leaves the line low; handleClkEdge has no case for the state.
DataWriteEdge ==
    /\ state = "dataWrite"
    /\ \E swdio \in (IF NextClk = 0 THEN Hold
                     ELSE IF Len(DataSent) < DATA_BITS THEN NextBits(DataWords, DataSent)
                     ELSE IF Len(DataSent) = DATA_BITS THEN AnyBit
                     ELSE {0}) :
         /\ Tick(swdio)
         /\ handleNoCase
         /\ IF NextClk = 1 /\ Len(DataSent) <= DATA_BITS
            THEN wire' = Append(DataSent, swdio) /\ wirePhase' = "data"
            ELSE UNCHANGED <<wire, wirePhase>>
    /\ dwEdges' = Min(dwEdges + 1, DwEdgeCap)
    /\ UNCHANGED <<chainVars, tapVars, trackVars, py, alertPos, flips, lastAck>>

\* self.state is the method Decoder.reset: handleClkEdge has no case for it.
ResetMethodEdge ==
    /\ state = DecoderResetMethod
    /\ \E swdio \in (IF NextClk = 1 THEN AnyBit ELSE Hold) :
         /\ Tick(swdio)
         /\ handleNoCase
    /\ UNCHANGED <<chainVars, tapVars, trackVars, py, wire, wirePhase, alertPos, flips, lastAck, dwEdges>>

\* handleClkEdge, called by decode() for every clock edge
Next ==
    \/ HandleUnknown
    \/ HandleIdle
    \/ HandleReset
    \/ HandleRequest
    \/ HandleAckTurnaround
    \/ HandleAck
    \/ HandleDataTurnaround
    \/ HandleDataRead
    \/ HandleParity
    \/ HandleSelectionAlert
    \/ HandleActivation
    \/ DataWriteEdge
    \/ ResetMethodEdge

Spec == Init /\ [][Next]_vars

TypeOK ==
    /\ state \in DecoderState \cup {DecoderResetMethod}
    /\ request \subseteq 0..(ALERT_BITS - 1)
    /\ ack \subseteq 0..(ACK_BITS - 1)
    /\ data \subseteq 0..(DATA_BITS - 1)
    /\ computedParity \in {0, 1}
    /\ actualParity \in {0, 1}
    /\ bits \in 0..ALERT_BITS
\* ------------------------------------------------------------------ claims
\* The number whose bits, least significant first, are the first n bits of wire.
WireWord(n) == { i \in 0..(n - 1) : wire[i + 1] = 1 }

\* The XOR of the first n bits of wire.
WireXor(n) == Cardinality(WireWord(n)) % 2

\* C1: the ACK annotation names the three bits sampled on the three falling
\* edges of the ack phase, first bit least significant: 1 is OK, 2 is WAIT,
\* 4 is FAULT, 7 is NO-RESPONSE, every other value is UNKNOWN, and an UNKNOWN
\* ack leaves the decoder in the unknown state.
C1_AckDecode ==
    ann.cls = "ACK" =>
        /\ wirePhase = "ack"
        /\ Len(wire) = ACK_BITS
        /\ LET v == wire[1] + 2 * wire[2] + 4 * wire[3]
           IN  /\ v = 1 <=> ann.text = "OK"
               /\ v = 2 <=> ann.text = "WAIT"
               /\ v = 4 <=> ann.text = "FAULT"
               /\ v = 7 <=> ann.text = "NO-RESPONSE"
               /\ v \in {0, 3, 5, 6} <=> ann.text = "UNKNOWN"
        /\ ann.text = "UNKNOWN" <=> state = "unknown"

\* C1 witness: the bits 1, 0, 1 (the value 5) have been decoded as UNKNOWN.
C1_Witness ==
    /\ ann.cls = "ACK"
    /\ ann.text = "UNKNOWN"
    /\ wire = <<1, 0, 1>>
    /\ state = "unknown"

DataPhaseStates == {"dataTurnaround", "dataRead", "dataWrite", "parity"}

\* C2: the decoder is in a data-phase state only if the most recent ACK was
\* OK; a WAIT, FAULT or NO-RESPONSE ack leaves it in idle at once, and no
\* DATA or PARITY annotation follows such an ack before the next ack.
C2_DataPhaseOnlyAfterOk ==
    /\ state \in DataPhaseStates => lastAck = "OK"
    /\ (ann.cls = "ACK" /\ ann.text \in {"WAIT", "FAULT", "NO-RESPONSE"}) => state = "idle"
    /\ ann.cls \in {"DATA", "PARITY"} => lastAck = "OK"

\* C2 witness: a WAIT ack has just been decoded and the decoder is idle.
C2_Witness ==
    /\ ann.cls = "ACK"
    /\ ann.text = "WAIT"
    /\ lastAck = "WAIT"
    /\ state = "idle"

\* C3: in a read the data register holds the 32 bits sampled on falling edges,
\* first bit least significant; the verdict is PARITY OK exactly when the XOR
\* of those bits equals the parity bit received; the decoder is in idle with
\* the verdict and not before it.
C3_ReadDataAndParity ==
    /\ ann.cls = "DATA" =>
          /\ wirePhase = "data" /\ Len(wire) = DATA_BITS
          /\ data = WireWord(DATA_BITS)
          /\ ann.hex = Hex8(WireWord(DATA_BITS))
          /\ state = "dataRead"
    /\ ann.cls = "PARITY" =>
          /\ wirePhase = "data" /\ Len(wire) = DATA_BITS + 1
          /\ data = WireWord(DATA_BITS)
          /\ ann.text = "PARITY OK" <=> WireXor(DATA_BITS) = wire[DATA_BITS + 1]
          /\ ann.text = "PARITY ERROR" <=> WireXor(DATA_BITS) # wire[DATA_BITS + 1]
          /\ state = "idle"
    /\ (wirePhase = "data" /\ TestBit(request, RNW_BIT)) =>
          \/ state = "dataRead" /\ Len(wire) <= DATA_BITS
          \/ state = "parity" /\ Len(wire) = DATA_BITS + 1
          \/ state = "idle" /\ Len(wire) = DATA_BITS + 1

\* C3 witness: the word 0x00000040 was read with parity bit 0: PARITY ERROR.
C3_Witness ==
    /\ ann.cls = "PARITY"
    /\ ann.text = "PARITY ERROR"
    /\ data = HexBits(<<0, 0, 0, 0, 0, 0, 4, 0>>)
    /\ wire[DATA_BITS + 1] = 0
    /\ state = "idle"

\* C4: a request byte with the stop bit low that is not the alert marker is
\* decoded from the eight bits sampled on rising edges, first bit least
\* significant: READ exactly when its RnW bit was sent high, AP exactly when
\* its APnDP bit was sent high, and the two address bits of the request
\* register are the address bits sent.
C4_RequestDecode ==
    /\ ann.cls \in {"READ", "WRITE"} =>
          /\ wirePhase = "req" /\ Len(wire) = REQUEST_BITS
          /\ request = WireWord(REQUEST_BITS)
          /\ ann.cls = "READ" <=> wire[3] = 1
          /\ ann.text \in {"AP READ", "AP WRITE"} <=> wire[2] = 1
          /\ ann.text \in {"DP READ", "DP WRITE"} <=> wire[2] = 0
          /\ BitOf(request, 3) = wire[4]
          /\ BitOf(request, 4) = wire[5]
          /\ state = "ackTurnaround"
    /\ (/\ wirePhase = "req" /\ Len(wire) = REQUEST_BITS /\ state # "request"
        /\ wire[1] = 1 /\ wire[7] = 0 /\ wire[8] = 1) => state = "ackTurnaround"

\* C4 witness: the request 0x8d, a DP read of address 4, has been decoded.
C4_Witness ==
    /\ ann.cls = "READ"
    /\ ann.text = "DP READ"
    /\ wire = <<1, 0, 1, 1, 0, 0, 0, 1>>
    /\ request = HexBits(<<8, 13>>)
\* C5: an OK-acknowledged write does not stay in dataWrite: within the 32
\* data bits, the parity bit and a closing clock cycle (68 edges) the decoder
\* has left the state for the parity verdict and idle.
C5_WriteLeavesDataWrite ==
    state = "dataWrite" => dwEdges <= 2 * (DATA_BITS + 1) + 2

\* C6: a LINE RESET is annotated, and the reset state left for idle, only
\* when the rising-edge samples before the terminating low one were high at
\* least 50 times in a row; with fewer highs the reset state is left for
\* unknown.
C6_LineResetNeeds50 ==
    [][ /\ (state = "reset" /\ ann'.cls = "RESET") => highRun >= LINE_RESET_BITS
        /\ (state = "reset" /\ state' = "idle") => highRun >= LINE_RESET_BITS
        /\ (state = "reset" /\ clk' = 1 /\ line' = 0 /\ highRun < LINE_RESET_BITS)
              => state' = "unknown" ]_vars

\* C7: when 50 or more consecutive high rising-edge samples that began in the
\* unknown state are followed by a low one, the decoder is in idle.
C7_LineResetLeavesUnknown ==
    [][ (runUnk /\ highRun >= LINE_RESET_BITS /\ clk' = 1 /\ line' = 0)
            => state' = "idle" ]_vars

\* C8: the edge that completes a register phase with PARITY OK also passes a
\* transaction record to the Python output.
C8_TransactionEmitted ==
    (ann.cls = "PARITY" /\ ann.text = "PARITY OK") => py # NoPy

\* C9: the marker request 0xc9 enters selectionAlert without a READ or WRITE
\* annotation and without an ack phase; the decoder leaves selectionAlert on
\* the rising edge after bit 127, for activation exactly when every bit sent
\* from the start bit on (the marker byte, bits 1..8, and bits 9..127) was
\* the bit of the alert constant, and for unknown with an ERROR annotation
\* otherwise.
C9_AlertSequence ==
    /\ state = "selectionAlert" =>
          /\ alertPos <= ALERT_BITS
          /\ ann = NoAnn
          /\ wirePhase = "req" /\ WireWord(REQUEST_BITS) = REQ_ALERT
    /\ (wirePhase = "req" /\ Len(wire) = REQUEST_BITS /\ state # "request"
        /\ WireWord(REQUEST_BITS) = REQ_ALERT) =>
          \/ state = "selectionAlert"
          \/ state = "unknown" /\ flips > 0 /\ alertPos = ALERT_BITS + 1
          \/ state = DecoderResetMethod /\ flips > 0 /\ alertPos = ALERT_BITS + 1
    /\ ann.cls \in {"READ", "WRITE"} => WireWord(REQUEST_BITS) # REQ_ALERT
    /\ (ann.cls = "ENABLE" /\ ann.text = "ALERT SEQUENCE") =>
          /\ flips = 0
          /\ alertPos = ALERT_BITS + 1
          /\ state = "activation"
    /\ (ann.cls = "ERROR" /\ ann.text = "INVALID SEQUENCE") =>
          /\ flips > 0
          /\ alertPos = ALERT_BITS + 1
          /\ state = "unknown"
    /\ state = "activation" => flips = 0

\* C9 witness: the whole alert sequence has been received and accepted.
C9_Witness ==
    /\ ann.cls = "ENABLE"
    /\ ann.text = "ALERT SEQUENCE"
    /\ state = "activation"
    /\ flips = 0

\* C9 second case reached: a sequence with one wrong bit has been rejected.
C9_RejectReached ==
    /\ ann.cls = "ERROR"
    /\ ann.text = "INVALID SEQUENCE"
    /\ state = "unknown"
    /\ flips = 1

\* C10: activation accepts exactly four low bits followed by the SWD code
\* (0x1a, sent least significant bit first) or the JTAG code (0x0a); a high
\* bit among the first four, or eight code bits that are neither code, end
\* the activation state.
C10_ActivationExact ==
    /\ (ann.cls = "ENABLE" /\ ann.text = "ACTIVATE SWD") =>
          /\ SubSeq(wire, 1, 12) = <<0, 0, 0, 0, 0, 1, 0, 1, 1, 0, 0, 0>>
          /\ Len(wire) = 13
          /\ state = "reset"
    /\ (ann.cls = "ENABLE" /\ ann.text = "ACTIVATE JTAG") =>
          /\ SubSeq(wire, 1, 12) = <<0, 0, 0, 0, 0, 1, 0, 1, 0, 0, 0, 0>>
          /\ Len(wire) = 13
          /\ state = "unknown"
    /\ state = "activation" =>
          /\ Len(wire) <= 12
          /\ \A k \in 1..Len(wire) : k <= ACTIVATION_IDLE_BITS => wire[k] = 0

\* ======================================================================
\* The JTAG chain decoder (decoders/jtag_adiv5/pd.py).
\*
\* A bitstring is the sequence of its characters as 0 and 1, first character
\* first, so the last element is logical bit 0.  A number taken out of a
\* bitstring is the set of positions of its 1 bits.  The list of sample
\* positions of a data event has one entry per character of its bitstring;
\* the model keeps its length, and an annotation keeps the two bit indices
\* that annotateBits looks up in it.  samplePositions is always the list of
\* the event being handled and irSamplePositions the list that came with
\* irSampleData, so neither is kept as a variable.
\* ======================================================================

\* ------------------------------------------------------------------ bounds
\* Number of 32-bit chunks in the longest ID-code scan-out.
MaxChunks == 3
\* Every IR bitstring of up to this many bits is an input.
MaxIRBits == 4

\* --------------------------------------------------------- program constants
ChainDecoderState ==
    {"inactive", "idle", "awaitingIDCodes", "countingDevices", "awaitingReset",
     "awaitingIR", "awaitingDR", "inError"}
ADIv5State == {"idle", "abort", "dpAccess", "apAccess", "inError"}

\* the width of one ID code
IDCODE_BITS == 32
\* 0xffffffff: the chunk that ends the ID codes
IDCODE_END == 0..(IDCODE_BITS - 1)
\* (idcode & 0x0fff0fff) == 0x0ba00477
ADIV5_MASK == HexBits(<<0, 15, 15, 15, 0, 15, 15, 15>>)
ADIV5_IDCODE == HexBits(<<0, 11, 10, 0, 0, 4, 7, 7>>)

\* quirks is None
NoQuirks == [length |-> Unset, value |-> Unset]
\* tapDecoder is None
NoTapDecoder == [present |-> FALSE, state |-> "idle", dpVersion |-> 0]
\* currentInsn has not been assigned
NoInsn == {Unset}
\* drLength is None
NoneLength == -1000

\* devices.py: the known devices
jtagDevices ==
    << [idcode |-> HexBits(<<0, 11, 10, 0, 0, 4, 7, 7>>),
        mask |-> HexBits(<<0, 15, 15, 15, 15, 15, 15, 15>>),
        mfr |-> "ARM", description |-> "ADIv5 JTAG-DPv0", irQuirks |-> NoQuirks],
       [idcode |-> HexBits(<<0, 11, 10, 0, 1, 4, 7, 7>>),
        mask |-> HexBits(<<0, 15, 15, 15, 15, 15, 15, 15>>),
        mfr |-> "ARM", description |-> "ADIv5 JTAG-DPv1", irQuirks |-> NoQuirks],
       [idcode |-> HexBits(<<0, 11, 10, 0, 2, 4, 7, 7>>),
        mask |-> HexBits(<<0, 15, 15, 15, 15, 15, 15, 15>>),
        mfr |-> "ARM", description |-> "ADIv5 JTAG-DPv2", irQuirks |-> NoQuirks],
       [idcode |-> HexBits(<<0, 3, 6, 0, 0, 0, 9, 3>>),
        mask |-> HexBits(<<0, 15, 14, 0, 0, 15, 15, 15>>),
        mfr |-> "Xilinx", description |-> "FPGA",
        irQuirks |-> [length |-> 6, value |-> 17]] >>

\* --------------------------------------------------------------- bitstrings
Max(a, b) == IF a > b THEN a ELSE b

\* An index of a Python slice of a sequence of n items: a negative index
\* counts from the end, and the index is clamped to the sequence.
SliceIndex(i, n) == IF i < 0 THEN Max(i + n, 0) ELSE Min(i, n)

\* s[lo:hi]
PySlice(s, lo, hi) ==
    LET cut(from, to) == IF from < to THEN SubSeq(s, from + 1, to) ELSE <<>>
    IN  cut(SliceIndex(lo, Len(s)), SliceIndex(hi, Len(s)))

\* substr of fromBitstring; end = -1 stands for the default argument
Substr(bitstr, begin, end) ==
    PySlice(bitstr, Len(bitstr) - (IF end = -1 THEN begin + 1 ELSE end),
            Len(bitstr) - begin)

\* int(substr, base = 2), for a substr that is not empty
IntBase2(substr) == { i \in 0..(Len(substr) - 1) : substr[Len(substr) - i] = 1 }

\* int(substr, base = 2) raises ValueError for the empty string
fromBitstringRaises(bitstr, begin, end) == Substr(bitstr, begin, end) = <<>>

\* A variant of fromBitstring that counts logical bits from the first character.
fromBitstringFromLeft(bitstr, begin, end) ==
    IntBase2(PySlice(bitstr, begin, IF end = -1 THEN begin + 1 ELSE end))

\* fromBitstring
fromBitstring(bitstr, begin, end) == IntBase2(Substr(bitstr, begin, end))

\* The number of a set of bit positions, for numbers of a few bits.
RECURSIVE ToInt(_)
ToInt(reg) ==
    IF reg = {} THEN 0
    ELSE LET rest(p) == Pow2(p) + ToInt(reg \ {p}) IN rest(CHOOSE q \in reg : TRUE)

\* (reg >> n) & (2^width - 1)
Field(reg, n, width) == { i - n : i \in { j \in reg : j >= n /\ j < n + width } }

\* samplePositions[i] raises IndexError unless -len <= i < len
BadIndex(i, n) == i >= n \/ i < 0 - n

\* annotateBits(begin, end, [cls, [text...]]): one annotation, with the
\* numbers that are formatted into its text
ChainAnnotation(begin, end, cls, text, value) ==
    [begin |-> begin, end |-> end, cls |-> cls, text |-> text, value |-> value]

\* ------------------------------------------------------------- JTAGDevice
\* JTAGDevice.__init__
JTAGDevice(drPrescan, idcode) ==
    [idcode |-> idcode, drPrescan |-> drPrescan, drPostscan |-> Unset,
     irLength |-> Unset, irPrescan |-> Unset, irPostscan |-> Unset,
     currentInsn |-> NoInsn, quirks |-> NoQuirks, tapDecoder |-> NoTapDecoder]

isADIv5(device) == (device.idcode \cap ADIV5_MASK) = ADIV5_IDCODE
\* deviceIndex, irBegin, irEnd
deviceIndex(device) == device.drPrescan
irBegin(device) == device.irPrescan
irEnd(device) == device.irPrescan + device.irLength - 1

\* decodeIDCode: the index of the first entry of jtagDevices that matches,
\* 0 when none does
decodeIDCode(idcode) ==
    LET first(hits) == IF hits = {} THEN 0 ELSE CHOOSE k \in hits : \A j \in hits : k <= j
    IN  first({ k \in 1..Len(jtagDevices) :
                  (idcode \cap jtagDevices[k].mask) = jtagDevices[k].idcode })

\* ADIv5Decoder.__init__, as far as the chain decoder reads it
ADIv5Decoder(device) ==
    [present |-> TRUE, state |-> "idle",
     dpVersion |-> ToInt(Field(device.idcode, 12, 4))]

\* setupDecoder
setupDecoder(device) ==
    IF isADIv5(device) THEN [device EXCEPT !.tapDecoder = ADIv5Decoder(device)]
    ELSE device

\* A variant of instruction that takes the low four bits of every value.
instructionLowBits(device) == ToInt(device.currentInsn \cap (0..3))

\* ADIv5Decoder.instruction
instruction(device) ==
    IF device.irLength = 8 /\ (device.currentInsn \cap (4..7)) # (4..7)
    THEN 0
    ELSE ToInt(device.currentInsn \cap (0..3))

\* ADIv5Decoder.drLength
tapDrLength(device) ==
    LET length(insn) ==
            IF insn = 15 THEN 1
            ELSE IF insn = 14 THEN 32
            ELSE IF insn \in {8, 10, 11} THEN 35
            ELSE NoneLength
    IN  length(instruction(device))

\* JTAGDevice.drLength
drLength(device) ==
    IF ~device.tapDecoder.present THEN NoneLength ELSE tapDrLength(device)

\* ADIv5Decoder.instructions.get(instruction, ('UNKNOWN', inError))
InsnName(insn) ==
    CASE insn = 8 -> "ABORT" [] insn = 10 -> "DPACC" [] insn = 11 -> "APACC"
      [] insn = 14 -> "IDCODE" [] insn = 15 -> "BYPASS" [] OTHER -> "UNKNOWN"
InsnState(insn) ==
    CASE insn = 8 -> "abort" [] insn = 10 -> "dpAccess" [] insn = 11 -> "apAccess"
      [] insn = 14 -> "idle" [] insn = 15 -> "idle" [] OTHER -> "inError"

\* ADIv5Decoder.decodeInsn: the new state of the per-TAP decoder
decodeInsn(device) ==
    [device EXCEPT !.tapDecoder.state = InsnState(instruction(device))]

\* JTAGDevice.irChange: the device afterwards
irChange(device, newInsn) ==
    LET decoded(stored) == IF ~stored.tapDecoder.present THEN stored ELSE decodeInsn(stored)
    IN  decoded([device EXCEPT !.currentInsn = newInsn])

\* JTAGDevice.irChange: the annotation it puts
irChangeAnn(device, newInsn) ==
    ChainAnnotation(irBegin(device), irEnd(device), "JTAG_COMMAND",
        IF ~device.tapDecoder.present
        THEN (IF newInsn = 0..(device.irLength - 1) THEN "BYPASS" ELSE "UNKNOWN")
        ELSE InsnName(instruction([device EXCEPT !.currentInsn = newInsn])),
        <<deviceIndex(device)>>)

\* ------------------------------------------------------ handleStateChange
\* A variant of handleStateChange that keeps the device list on a reset.
handleStateChangeKeeping(name) ==
    IF chainState # "awaitingIDCodes" /\ name = "TEST-LOGIC-RESET"
    THEN [state |-> "awaitingIDCodes", devices |-> devices]
    ELSE IF chainState = "idle" /\ name = "SHIFT-IR"
    THEN [state |-> "awaitingIR", devices |-> devices]
    ELSE IF chainState = "idle" /\ name = "SHIFT-DR"
    THEN [state |-> "awaitingDR", devices |-> devices]
    ELSE [state |-> chainState, devices |-> devices]

\* A variant of handleStateChange that follows a shift state out of inError.
handleStateChangeFromError(name) ==
    IF chainState # "awaitingIDCodes" /\ name = "TEST-LOGIC-RESET"
    THEN [state |-> "awaitingIDCodes", devices |-> <<>>]
    ELSE IF chainState \in {"idle", "inError"} /\ name = "SHIFT-IR"
    THEN [state |-> "awaitingIR", devices |-> devices]
    ELSE IF chainState \in {"idle", "inError"} /\ name = "SHIFT-DR"
    THEN [state |-> "awaitingDR", devices |-> devices]
    ELSE [state |-> chainState, devices |-> devices]

\* handleStateChange: the state and the device list afterwards
handleStateChange(name) ==
    IF chainState # "awaitingIDCodes" /\ name = "TEST-LOGIC-RESET"
    THEN [state |-> "awaitingIDCodes", devices |-> <<>>]
    ELSE IF chainState = "idle" /\ name = "SHIFT-IR"
    THEN [state |-> "awaitingIR", devices |-> devices]
    ELSE IF chainState = "idle" /\ name = "SHIFT-DR"
    THEN [state |-> "awaitingDR", devices |-> devices]
    ELSE [state |-> chainState, devices |-> devices]

\* ---------------------------------------------------------- handleIDCodes
\* The annotations handleIDCodes puts for the ID code at offset.
IDCodeAnns(offset, idcode) ==
    LET anns(k) ==
            <<ChainAnnotation(offset, offset + 31, "JTAG_ITEM", "IDCODE", <<idcode>>)>> \o
            (IF k = 0
             THEN <<ChainAnnotation(offset, offset + 31, "JTAG_FIELD",
                                    "Unknown Device", <<>>)>>
             ELSE << ChainAnnotation(offset, offset, "JTAG_FIELD", "Reserved", <<>>),
                     ChainAnnotation(offset + 1, offset + 11, "JTAG_FIELD",
                                     "Manufacturer", <<jtagDevices[k].mfr>>),
                     ChainAnnotation(offset + 12, offset + 27, "JTAG_FIELD", "Partno",
                                     <<Field(idcode, 12, 16)>>),
                     ChainAnnotation(offset + 28, offset + 31, "JTAG_FIELD", "Version",
                                     <<ToInt(Field(idcode, 28, 4))>>),
                     ChainAnnotation(offset, offset + 31, "JTAG_NOTE",
                                     jtagDevices[k].description, <<>>) >>)
    IN  anns(decodeIDCode(idcode))

\* The device handleIDCodes creates for an ID code: JTAGDevice(...) and the
\* quirks decodeIDCode unpacks.
NewDevice(device, idcode) ==
    LET made(k) ==
            [JTAGDevice(device, idcode) EXCEPT
                !.quirks = IF k = 0 THEN NoQuirks ELSE jtagDevices[k].irQuirks]
    IN  made(decodeIDCode(idcode))

\* The first loop of handleIDCodes from chunk `device` on.  acc holds
\* self.devices, the annotations put and the counter `devices`.
RECURSIVE IDCodeLoop(_, _, _)
IDCodeLoop(bitstr, device, acc) ==
    LET step(offset, idcode) ==
            IF idcode = IDCODE_END THEN [acc EXCEPT !.count = device]
            ELSE IDCodeLoop(bitstr, device + 1,
                    [devices |-> Append(acc.devices, NewDevice(device, idcode)),
                     ann |-> acc.ann \o IDCodeAnns(offset, idcode),
                     count |-> acc.count + 1])
    IN  IF device >= Len(bitstr) \div IDCODE_BITS THEN acc
        ELSE step(IDCODE_BITS * device,
                  fromBitstring(bitstr, IDCODE_BITS * device,
                                IDCODE_BITS * device + IDCODE_BITS))

\* A variant of DrPostscan that counts the postscan from the device itself.
DrPostscanInclusive(count, device) == count - device

\* devices - device - 1
DrPostscan(count, device) == count - device - 1

\* handleIDCodes: self.devices and the annotations afterwards; the state
\* becomes countingDevices
handleIDCodes(bitstr) ==
    LET done(acc) ==
            [devices |-> [i \in 1..Len(acc.devices) |->
                            IF i <= acc.count
                            THEN [acc.devices[i] EXCEPT
                                    !.drPostscan = DrPostscan(acc.count, i - 1)]
                            ELSE acc.devices[i]],
             ann |-> acc.ann]
    IN  done(IDCodeLoop(bitstr, 0, [devices |-> devices, ann |-> <<>>, count |-> 0]))

\* ------------------------------------------------------ determineIRLengths
\* The quirks of self.devices[device], None past the end of the list.
QuirksOf(devs, device) ==
    IF device < Len(devs) THEN devs[device + 1].quirks ELSE NoQuirks

\* irQuirks is not None and ((irQuirks['value'] >> irLength) & 1) == nextBit
QuirkMismatch(irQuirks, irLength, nextBit) ==
    irQuirks # NoQuirks /\ (irQuirks.value \div Pow2(irLength)) % 2 = nextBit

\* A variant of IRComplete that ends an IR on any set bit.
IRCompleteAnyBit(irQuirks, irLength, nextBit) ==
    \/ irQuirks = NoQuirks /\ nextBit = 1
    \/ irQuirks # NoQuirks /\ irLength = irQuirks.length

\* the test for a complete IR, with irLength already counting nextBit
IRComplete(irQuirks, irLength, nextBit) ==
    \/ irQuirks = NoQuirks /\ nextBit = 1 /\ irLength > 1
    \/ irQuirks # NoQuirks /\ irLength = irQuirks.length

\* The annotation for a first IR bit that is 0, if this is one.
BuggyAnn(st, nextBit) ==
    IF st.irLength = 0 /\ nextBit = 0
    THEN <<ChainAnnotation(st.prescan, st.prescan, "JTAG_NOTE", "Buggy IR[0]", <<>>)>>
    ELSE <<>>

\* overrun = 1 if irQuirks is None else 0
Overrun(irQuirks) == IF irQuirks = NoQuirks THEN 1 ELSE 0

\* The end of the loop body of determineIRLengths for a complete IR of
\* deviceIR bits: the device is configured and the locals are set up for
\* the next device.
IRConfigure(st, deviceIR, buggy) ==
    LET next(configured) ==
            [prescan |-> st.prescan + deviceIR,
             device |-> st.device + 1,
             irLength |-> Overrun(st.irQuirks),
             irQuirks |-> QuirksOf(st.devices, st.device + 1),
             devices |-> [st.devices EXCEPT ![st.device + 1] = configured],
             ann |-> st.ann \o buggy \o
                 << ChainAnnotation(st.prescan, st.prescan + deviceIR - 1,
                                    "JTAG_FIELD", "bit IR", <<deviceIR>>),
                    irChangeAnn(configured, 0..(deviceIR - 1)) >>,
             left |-> ""]
    IN  next(irChange(setupDecoder(
                [st.devices[st.device + 1] EXCEPT
                    !.irLength = deviceIR, !.irPrescan = st.prescan]),
                0..(deviceIR - 1)))

\* The body of the bit loop of determineIRLengths for the bit at offset.
\* st holds the locals prescan, device, irLength and irQuirks, self.devices,
\* the annotations put, and how the loop was left ("" while it runs).
IRStep(bitstr, offset, st) ==
    LET step(nextBit, irLength, buggy) ==
            IF QuirkMismatch(st.irQuirks, st.irLength, nextBit)
            THEN [st EXCEPT
                    !.ann = @ \o <<ChainAnnotation(st.prescan, offset, "JTAG_NOTE",
                                                   "Error decoding IR", <<>>)>>,
                    !.left = "error"]
            ELSE IF ~IRComplete(st.irQuirks, irLength, nextBit)
            THEN [st EXCEPT !.ann = @ \o buggy, !.irLength = irLength]
            ELSE IF st.irQuirks = NoQuirks /\ irLength = 2
            THEN [st EXCEPT !.ann = @ \o buggy, !.irLength = irLength,
                            !.left = "break"]
            ELSE IF st.device = Len(st.devices)
            THEN [st EXCEPT
                    !.ann = @ \o buggy \o
                        <<ChainAnnotation(st.prescan, Len(bitstr) - 1, "JTAG_NOTE",
                                          "Error decoding IR", <<>>)>>,
                    !.irLength = irLength,
                    !.left = "error"]
            ELSE IRConfigure(st, irLength - Overrun(st.irQuirks), buggy)
        bit(nextBit) == step(nextBit, st.irLength + 1, BuggyAnn(st, nextBit))
    IN  bit(BitOf(fromBitstring(bitstr, offset, -1), 0))

RECURSIVE IRLoop(_, _, _)
IRLoop(bitstr, offset, st) ==
    IF offset >= Len(bitstr) \/ st.left # "" THEN st
    ELSE IRLoop(bitstr, offset + 1, IRStep(bitstr, offset, st))

\* A variant of IRLengthAfter that counts the device at position i as well.
RECURSIVE IRLengthFrom(_, _)
IRLengthFrom(devs, i) ==
    IF i > Len(devs) THEN 0 ELSE devs[i].irLength + IRLengthFrom(devs, i + 1)

\* The sum of irLength over the devices after position i of the list.
RECURSIVE IRLengthAfter(_, _)
IRLengthAfter(devs, i) ==
    IF i >= Len(devs) THEN 0 ELSE devs[i + 1].irLength + IRLengthAfter(devs, i + 1)

\* The position of the last device that has no irLength, 0 if all have one.
LastUnset(devs) ==
    LET last(unset) == IF unset = {} THEN 0 ELSE CHOOSE i \in unset : \A j \in unset : j <= i
    IN  last({ i \in 1..Len(devs) : devs[i].irLength = Unset })

\* The last loop of determineIRLengths, over reversed(self.devices): it stops
\* with AttributeError at the last device that has no irLength, after
\* setting that device's irPostscan.
IRPostscanLoop(devs) ==
    LET upto(stop) ==
            [devices |-> [i \in 1..Len(devs) |->
                            IF i >= stop
                            THEN [devs[i] EXCEPT !.irPostscan = IRLengthAfter(devs, i)]
                            ELSE devs[i]],
             raised |-> IF stop = 0 THEN "none" ELSE "AttributeError"]
    IN  upto(LastUnset(devs))

\* determineIRLengths: self.devices, the annotations, the state and the
\* exception afterwards.  from is the state the decoder is in at the call.
determineIRLengths(bitstr, devs, from) ==
    LET finish(st, post) ==
            [devices |-> post.devices, ann |-> st.ann,
             state |-> IF post.raised = "none" THEN "idle" ELSE from,
             raised |-> post.raised]
        after(st) ==
            IF st.left = "error"
            THEN [devices |-> st.devices, ann |-> st.ann, state |-> "inError",
                  raised |-> "none"]
            ELSE finish(st, IRPostscanLoop(st.devices))
    IN  IF devs = <<>>
        THEN [devices |-> devs, ann |-> <<>>, state |-> from, raised |-> "IndexError"]
        ELSE after(IRLoop(bitstr, 0,
                     [prescan |-> 0, device |-> 0, irLength |-> 0,
                      irQuirks |-> devs[1].quirks, devices |-> devs,
                      ann |-> <<>>, left |-> ""]))

\* ---------------------------------------------------------- handleIRChange
\* The loop of handleIRChange from device i (counted from 1) on.  acc holds
\* self.devices, the annotations put and the exception raised.
RECURSIVE IRChangeLoop(_, _, _)
IRChangeLoop(bitstr, i, acc) ==
    LET put(device, begin, end, ir) ==
            IRChangeLoop(bitstr, i + 1,
                [devices |-> [acc.devices EXCEPT ![i] = irChange(device, ir)],
                 ann |-> acc.ann \o
                     << ChainAnnotation(begin, end - 1, "JTAG_ITEM", "IR", <<ir>>),
                        irChangeAnn(device, ir) >>,
                 raised |-> "none"])
        slice(device, begin, end) ==
            IF fromBitstringRaises(bitstr, begin, end)
            THEN [acc EXCEPT !.raised = "ValueError"]
            ELSE IF BadIndex(begin, Len(bitstr)) \/ BadIndex(end - 1, Len(bitstr))
            THEN [acc EXCEPT !.raised = "IndexError"]
            ELSE put(device, begin, end, fromBitstring(bitstr, begin, end))
        each(device) == slice(device, device.irPrescan, device.irPrescan + device.irLength)
    IN  IF i > Len(acc.devices) \/ acc.raised # "none" THEN acc
        ELSE each(acc.devices[i])

\* handleIRChange: self.devices, the annotations, the state and the
\* exception afterwards
handleIRChange(bitstr) ==
    LET done(acc) ==
            [devices |-> acc.devices, ann |-> acc.ann, raised |-> acc.raised,
             state |-> IF acc.raised = "none" THEN "idle" ELSE chainState]
    IN  done(IRChangeLoop(bitstr, 1, [devices |-> devices, ann |-> <<>>,
                                      raised |-> "none"]))

\* ---------------------------------------------------------- handleDRChange
\* sum(0 if length is None else length for length in drLengths)
RECURSIVE SumKnown(_)
SumKnown(lengths) ==
    IF lengths = <<>> THEN 0
    ELSE (IF Head(lengths) = NoneLength THEN 0 ELSE Head(lengths)) + SumKnown(Tail(lengths))

\* drLengths.count(None)
CountNone(lengths) == Cardinality({ i \in 1..Len(lengths) : lengths[i] = NoneLength })

\* A variant of UnknownLength that takes the whole exchange for the unknown DR.
UnknownLengthWhole(dataLength, lengths) == dataLength

\* dataLength - sum(0 if length is None else length for length in drLengths)
UnknownLength(dataLength, lengths) == dataLength - SumKnown(lengths)

\* The list drLengths once the unknown length, if there is exactly one, has
\* been assigned.
ResolvedLengths(dataLength, lengths) ==
    IF CountNone(lengths) # 1 THEN lengths
    ELSE [i \in 1..Len(lengths) |->
            IF lengths[i] = NoneLength THEN UnknownLength(dataLength, lengths)
            ELSE lengths[i]]

\* The loop of handleDRChange from device i (counted from 1) on.  acc holds
\* the local offset, the annotations put and the exception raised.
RECURSIVE DRLoop(_, _, _, _, _)
DRLoop(bitsIn, bitsOut, lengths, i, acc) ==
    LET slice(begin, end, n) ==
            IF fromBitstringRaises(bitsIn, begin, end)
               \/ fromBitstringRaises(bitsOut, begin, end)
            THEN [acc EXCEPT !.raised = "ValueError"]
            ELSE IF BadIndex(begin, n) \/ BadIndex(end - 1, n)
            THEN [acc EXCEPT !.raised = "IndexError"]
            ELSE DRLoop(bitsIn, bitsOut, lengths, i + 1,
                    [offset |-> end,
                     ann |-> Append(acc.ann,
                                ChainAnnotation(begin, end - 1, "JTAG_ITEM", "DR",
                                                <<>>)),
                     raised |-> "none"])
    IN  IF i > Len(lengths) \/ acc.raised # "none" THEN acc
        ELSE slice(acc.offset, acc.offset + lengths[i], Len(bitsOut))

\* handleDRChange: the annotations, the list drLengths, the state and the
\* exception afterwards.  Nothing is passed to a per-TAP decoder.
handleDRChange(dataLength, bitsIn, bitsOut) ==
    LET done(resolved, acc) ==
            [ann |-> acc.ann, drLengths |-> resolved, raised |-> acc.raised,
             state |-> IF acc.raised = "none" THEN "idle" ELSE chainState]
        split(resolved) ==
            done(resolved, DRLoop(bitsIn, bitsOut, resolved, 1,
                                  [offset |-> 0, ann |-> <<>>, raised |-> "none"]))
        count(lengths) ==
            IF CountNone(lengths) > 1
            THEN [ann |-> <<ChainAnnotation(0, -1, "JTAG_NOTE",
                                            "Too many unknown DR lengths", <<>>)>>,
                  drLengths |-> lengths, state |-> "idle", raised |-> "none"]
            ELSE split(ResolvedLengths(dataLength, lengths))
    IN  count([i \in 1..Len(devices) |-> drLength(devices[i])])

\* -------------------------------------------------------------- handleData
\* The decoder as an event finds it, with nothing put yet.
Kept ==
    [state |-> chainState, devices |-> devices, irSampleData |-> irSampleData,
     dataIn |-> dataIn, ann |-> <<>>, drLengths |-> <<>>, raised |-> "none"]

\* handleData in awaitingIDCodes
handleDataAwaitingIDCodes(action, bitstr, seen) ==
    LET deferred(ids, ir) ==
            [seen EXCEPT
                !.devices = ir.devices, !.ann = ids.ann \o ir.ann,
                !.state = ir.state, !.raised = ir.raised,
                !.irSampleData = IF ir.raised = "none" THEN None ELSE @]
        codes(ids) ==
            IF irSampleData = None
            THEN [seen EXCEPT !.devices = ids.devices, !.ann = ids.ann,
                              !.state = "countingDevices"]
            ELSE deferred(ids, determineIRLengths(irSampleData, ids.devices,
                                                  "countingDevices"))
    IN  IF action = "IR TDO" /\ irSampleData = None
        THEN [seen EXCEPT !.irSampleData = bitstr, !.state = "awaitingReset"]
        ELSE IF action = "DR TDO" THEN codes(handleIDCodes(bitstr))
        ELSE seen

\* handleData in countingDevices
handleDataCountingDevices(action, bitstr, seen) ==
    LET lengths(ir) ==
            [seen EXCEPT !.devices = ir.devices, !.ann = ir.ann,
                         !.state = ir.state, !.raised = ir.raised]
    IN  IF action = "IR TDO" THEN lengths(determineIRLengths(bitstr, devices, chainState))
        ELSE IF action \in {"DR TDI", "DR TDO"} THEN [seen EXCEPT !.state = "inError"]
        ELSE seen

\* handleData in awaitingIR
handleDataAwaitingIR(action, bitstr, seen) ==
    LET change(ir) ==
            [seen EXCEPT !.devices = ir.devices, !.ann = ir.ann,
                         !.state = ir.state, !.raised = ir.raised]
    IN  IF action = "IR TDI" THEN change(handleIRChange(bitstr)) ELSE seen

\* A variant of LengthsMismatch that never finds a mismatch.
LengthsMismatchNever(bitsIn, bitsOut) == FALSE

\* len(dataIn) != len(data)
LengthsMismatch(bitsIn, bitsOut) == Len(bitsIn) # Len(bitsOut)

\* handleData in awaitingDR
handleDataAwaitingDR(action, bitstr, seen) ==
    LET change(dr) ==
            [seen EXCEPT !.dataIn = None, !.ann = dr.ann, !.drLengths = dr.drLengths,
                         !.state = dr.state, !.raised = dr.raised]
    IN  IF action = "DR TDI" THEN [seen EXCEPT !.dataIn = bitstr]
        ELSE IF action # "DR TDO" THEN seen
        ELSE IF dataIn = None THEN [seen EXCEPT !.raised = "AttributeError"]
        ELSE IF LengthsMismatch(dataIn, bitstr)
        THEN [seen EXCEPT
                !.dataIn = None,
                !.ann = <<ChainAnnotation(0, -1, "JTAG_NOTE",
                                          "Mismatched TDI and TDO lengths", <<>>)>>,
                !.state = "inError"]
        ELSE change(handleDRChange(Len(bitstr), dataIn, bitstr))

\* handleData: every attribute of the decoder afterwards
handleData(action, bitstr) ==
    CASE chainState = "inactive" -> Kept
      [] chainState = "awaitingIDCodes" -> handleDataAwaitingIDCodes(action, bitstr, Kept)
      [] chainState = "countingDevices" -> handleDataCountingDevices(action, bitstr, Kept)
      [] chainState = "awaitingIR" -> handleDataAwaitingIR(action, bitstr, Kept)
      [] chainState = "awaitingDR" -> handleDataAwaitingDR(action, bitstr, Kept)
      [] OTHER -> Kept

\* ------------------------------------------------- the events of the chain
\* The states the JTAG decoder below reports with 'NEW STATE'.
StateNames == {"TEST-LOGIC-RESET", "RUN-TEST/IDLE", "SHIFT-IR", "SHIFT-DR"}
DataActions == {"IR TDI", "IR TDO", "DR TDI", "DR TDO"}

\* ID codes on the chain: an ARM JTAG-DP, a part the table does not know, a
\* Xilinx FPGA (a part with IR quirks), and the all-ones chunk.
IDChunks ==
    { HexBits(<<4, 11, 10, 0, 0, 4, 7, 7>>), HexBits(<<0, 6, 4, 3, 3, 0, 4, 1>>),
      HexBits(<<0, 3, 6, 2, 13, 0, 9, 3>>), IDCODE_END }

\* The 32 characters of an ID code, most significant bit first.
ChunkBits(reg) == [i \in 1..IDCODE_BITS |-> IF (IDCODE_BITS - i) \in reg THEN 1 ELSE 0]

\* The bitstring of a DR scan-out whose chunks are read in the given order.
RECURSIVE ScanOut(_)
ScanOut(chunks) ==
    IF chunks = <<>> THEN <<>> ELSE ScanOut(Tail(chunks)) \o ChunkBits(Head(chunks))

\* Bits shifted after the last whole chunk.
Stray == <<1, 0>>

\* Every bitstring of 1..n bits.
BitStrings(n) == UNION { [1..k -> {0, 1}] : k \in 1..n }

IDStrings ==
    { ScanOut(chunks) : chunks \in UNION { [1..k -> IDChunks] : k \in 1..MaxChunks } }
    \cup { Stray \o ScanOut(chunks) : chunks \in UNION { [1..k -> IDChunks] : k \in 0..1 } }
\* A bitstring from its bits in shift order, logical bit 0 first.
Shifted(lsbFirst) == [i \in 1..Len(lsbFirst) |-> lsbFirst[Len(lsbFirst) + 1 - i]]

\* IR exchanges of longer chains.  Scan-outs: a 4-bit IR; a 4-bit and a 2-bit
\* IR; two 4-bit IRs; three 2-bit IRs; an 8-bit IR; a 2-bit IR that begins
\* with 0 and a 3-bit IR; the complement of the
\* Xilinx pattern and the pattern itself, alone, after and before a 2-bit IR.
\* Instructions: two bits then a 4-bit instruction; two 4-bit instructions;
\* 8-bit instructions.
LongIRStrings ==
    { Shifted(<<1, 0, 0, 0, 1, 1>>), Shifted(<<1, 0, 0, 0, 1, 0, 1, 1>>),
      Shifted(<<1, 0, 0, 0, 1, 0, 0, 0, 1, 1>>),
      Shifted(<<1, 0, 1, 0, 1, 0, 1, 1>>),
      Shifted(<<1, 0, 0, 0, 0, 0, 0, 0, 1>>),
      Shifted(<<0, 0, 1, 0, 0, 1, 1>>),
      Shifted(<<0, 1, 1, 1, 0, 1>>), Shifted(<<1, 0, 0, 0, 1, 0>>),
      Shifted(<<1, 0, 1, 1, 1, 1, 0, 1>>), Shifted(<<1, 0, 1, 0, 0, 0, 1, 0>>),
      Shifted(<<0, 1, 1, 1, 0, 1, 1, 0, 1>>), Shifted(<<1, 0, 0, 0, 1, 0, 1, 0, 1>>),
      <<1, 1, 1, 0, 1, 0>>, <<0, 0, 1, 1, 1, 0>>, <<1, 1, 0, 0, 0, 0>>,
      <<1, 0, 1, 0, 1, 1, 1, 1>>, <<1, 0, 1, 1, 1, 0, 1, 0>>,
      <<1, 1, 1, 0, 1, 0, 0, 0>>, <<1, 1, 1, 1, 1, 1, 1, 1>>,
      <<1, 1, 1, 1, 1, 0, 1, 0>>, <<0, 0, 0, 0, 1, 0, 1, 0>> }
IRStrings == BitStrings(MaxIRBits) \cup LongIRStrings

\* A DR bitstring of n bits.
Pattern(n) == [i \in 1..n |-> IF i % 3 = 0 THEN 1 ELSE 0]
DRStrings == { Pattern(n) : n \in {1, 2, 3, 32, 35, 36} }
\* Bitstrings for the events the decoder does not look at.
SmallStrings == {<<1>>, <<0, 1>>}

\* decode() with a data event
DecodeData(action, bitstr) ==
    LET becomes(r) ==
            /\ chainState' = r.state
            /\ devices' = r.devices
            /\ irSampleData' = r.irSampleData
            /\ dataIn' = r.dataIn
            /\ chainAnn' = r.ann
            /\ drLengths' = r.drLengths
            /\ raised' = r.raised
    IN  /\ becomes(handleData(action, bitstr))
        /\ event' = [action |-> action, name |-> "", bits |-> bitstr]
        /\ prevState' = chainState
        /\ UNCHANGED <<decodeDataCalls, swdVars, tapVars, trackVars>>

\* decode() with ('NEW STATE', name)
NewState ==
    /\ raised = "none"
    /\ dataIn = None
    /\ \E name \in StateNames :
         LET becomes(r) == chainState' = r.state /\ devices' = r.devices
         IN  /\ becomes(handleStateChange(name))
             /\ event' = [action |-> "NEW STATE", name |-> name, bits |-> <<>>]
    /\ chainAnn' = <<>>
    /\ drLengths' = <<>>
    /\ prevState' = chainState
    /\ UNCHANGED <<irSampleData, dataIn, decodeDataCalls, raised, swdVars, tapVars, trackVars>>

\* Data in a state in which handleData has no case for it.
IgnoredData ==
    /\ raised = "none"
    /\ chainState \in {"inactive", "awaitingReset", "idle", "inError"}
    /\ \E action \in DataActions, bitstr \in SmallStrings : DecodeData(action, bitstr)

\* awaitingIDCodes: an IR exchange before the ID codes
EarlyIRScan ==
    /\ raised = "none"
    /\ chainState = "awaitingIDCodes"
    /\ \/ /\ irSampleData = None
          /\ \E bitstr \in LongIRStrings : DecodeData("IR TDO", bitstr)
       \/ \E bitstr \in SmallStrings : DecodeData("IR TDI", bitstr)
       \/ /\ irSampleData # None
          /\ \E bitstr \in SmallStrings : DecodeData("IR TDO", bitstr)

\* awaitingIDCodes: the DR exchange that holds the ID codes
IDCodeScan ==
    /\ raised = "none"
    /\ chainState = "awaitingIDCodes"
    /\ \/ \E bitstr \in IDStrings : DecodeData("DR TDO", bitstr)
       \/ \E bitstr \in SmallStrings : DecodeData("DR TDI", bitstr)

\* countingDevices: the IR exchange that shows the IR lengths
IRLengthScan ==
    /\ raised = "none"
    /\ chainState = "countingDevices"
    /\ \/ \E bitstr \in IRStrings : DecodeData("IR TDO", bitstr)
       \/ \E bitstr \in SmallStrings : DecodeData("IR TDI", bitstr)

\* countingDevices: a DR exchange
CountingDRScan ==
    /\ raised = "none"
    /\ chainState = "countingDevices"
    /\ \E action \in {"DR TDI", "DR TDO"}, bitstr \in SmallStrings :
         DecodeData(action, bitstr)

\* awaitingIR: the IR exchange
IRExchange ==
    /\ raised = "none"
    /\ chainState = "awaitingIR"
    /\ \/ \E bitstr \in IRStrings : DecodeData("IR TDI", bitstr)
       \/ \E action \in DataActions \ {"IR TDI"}, bitstr \in SmallStrings :
            DecodeData(action, bitstr)

\* awaitingDR: the DR exchange.  The JTAG decoder below reports the TDI and
\* the TDO string of an exchange one after the other.
DRExchange ==
    /\ raised = "none"
    /\ chainState = "awaitingDR"
    /\ \/ /\ dataIn = None
          /\ \E bitstr \in DRStrings : DecodeData("DR TDI", bitstr)
       \/ \E bitstr \in DRStrings : DecodeData("DR TDO", bitstr)
       \/ /\ dataIn = None
          /\ \E action \in {"IR TDI", "IR TDO"}, bitstr \in SmallStrings :
               DecodeData(action, bitstr)

InitChain ==
    /\ ChainStart
    /\ TapAbsent
    /\ TrackerStart
    /\ state = "unknown"
    /\ request = {} /\ ack = {} /\ data = {}
    /\ computedParity = 0 /\ actualParity = 0 /\ bits = 0
    /\ ann = NoAnn /\ py = NoPy
    /\ clk = 0 /\ line = 0
    /\ wire = <<>> /\ wirePhase = "none"
    /\ alertPos = 0 /\ flips = 0 /\ lastAck = "none"
    /\ highRun = 0 /\ runUnk = FALSE /\ dwEdges = 0

\* decode(), called for every event of the JTAG decoder below
NextChain ==
    \/ NewState
    \/ IgnoredData
    \/ EarlyIRScan
    \/ IDCodeScan
    \/ IRLengthScan
    \/ CountingDRScan
    \/ IRExchange
    \/ DRExchange

SpecChain == InitChain /\ [][NextChain]_vars

\* ------------------------------------------------------ claims: the chain
\* Logical bit q of a bitstring.
LogicalBit(bitstr, q) == bitstr[Len(bitstr) - q]

\* The last event was a data event of the given kind, found in the given state.
After(action, found) == event.action = action /\ prevState = found

\* An annotation with the given text was put while handling the last event.
Annotated(text) == \E k \in 1..Len(chainAnn) : chainAnn[k].text = text

\* C11: a TEST-LOGIC-RESET state change leaves the decoder in awaitingIDCodes
\* with an empty device list, and in every reachable state the device list
\* is empty while the decoder is in awaitingIDCodes.
C11_ResetClearsDevices ==
    /\ chainState = "awaitingIDCodes" => devices = <<>>
    /\ event.name = "TEST-LOGIC-RESET" =>
         chainState = "awaitingIDCodes" /\ devices = <<>>

\* A reset arrived while the decoder was idle, so with a configured chain.
C11_Witness ==
    /\ event.name = "TEST-LOGIC-RESET"
    /\ prevState = "idle"
    /\ chainState = "awaitingIDCodes"

\* The 32-bit chunk k of a scan-out, chunk 0 being logical bits 0..31.
ChunkAt(bitstr, k) ==
    { q \in 0..(IDCODE_BITS - 1) : LogicalBit(bitstr, IDCODE_BITS * k + q) = 1 }

\* The number of whole chunks before the first all-ones chunk or the end.
LeadingCodes(bitstr) ==
    CHOOSE n \in 0..(Len(bitstr) \div IDCODE_BITS) :
        /\ \A k \in 0..(n - 1) : ChunkAt(bitstr, k) # IDCODE_END
        /\ n = Len(bitstr) \div IDCODE_BITS \/ ChunkAt(bitstr, n) = IDCODE_END

\* C12: a DR scan-out in awaitingIDCodes that holds N ID codes before its
\* first all-ones chunk or its end creates exactly N devices in scan order;
\* device i has the ID code of chunk i and drPrescan = i, and
\* drPrescan + drPostscan + 1 = N for every device.
C12_IDCodesMakeDevices ==
    After("DR TDO", "awaitingIDCodes") =>
        /\ Len(devices) = LeadingCodes(event.bits)
        /\ \A i \in 1..Len(devices) :
             /\ devices[i].idcode = ChunkAt(event.bits, i - 1)
             /\ devices[i].drPrescan = i - 1
             /\ devices[i].drPrescan + devices[i].drPostscan + 1
                  = LeadingCodes(event.bits)

\* One ID code, then the all-ones chunk, then a chunk that is not all ones.
C12_Witness ==
    /\ After("DR TDO", "awaitingIDCodes")
    /\ Len(event.bits) = 3 * IDCODE_BITS
    /\ ChunkAt(event.bits, 1) = IDCODE_END
    /\ ChunkAt(event.bits, 2) # IDCODE_END
    /\ Len(devices) = 1

\* The position of the first 1 bit beyond logical bit p, Len(bitstr) if
\* there is none.
NextOne(bitstr, p) ==
    CHOOSE q \in (p + 1)..Max(Len(bitstr), p + 1) :
        /\ q = Len(bitstr) \/ (q < Len(bitstr) /\ LogicalBit(bitstr, q) = 1)
        /\ \A r \in (p + 1)..(q - 1) : r >= Len(bitstr) \/ LogicalBit(bitstr, r) = 0

\* The position of the leading bit of the IR of device i (counted from 0)
\* in a scan-out of IRs without quirks: each IR ends before the next 1 bit.
RECURSIVE Starts(_, _)
Starts(bitstr, i) == IF i = 0 THEN 0 ELSE NextOne(bitstr, Starts(bitstr, i - 1))

\* The scan-out terminates the IRs of n devices: each has a 1 bit two or
\* more bits beyond its leading bit.
TerminatesAll(bitstr, n) ==
    \A i \in 0..(n - 1) :
        /\ NextOne(bitstr, Starts(bitstr, i)) < Len(bitstr)
        /\ NextOne(bitstr, Starts(bitstr, i)) - Starts(bitstr, i) >= 2

\* Beyond the bit that terminates the last of n devices the scan-out holds
\* no further IR: a 1 bit follows at once, or no 1 bit follows at all.
EndsThere(bitstr, n) ==
    NextOne(bitstr, Starts(bitstr, n)) \in {Starts(bitstr, n) + 1, Len(bitstr)}

NoQuirksOnChain == \A i \in 1..Len(devices) : devices[i].quirks = NoQuirks

\* C13, as stated: IR length discovery on a chain without quirks gives each
\* device it configures, in prescan order, the number of bits from its
\* leading bit up to but excluding the next 1 bit, which is never less than
\* 2; a leading bit of 0 is annotated 'Buggy IR[0]' and the discovery goes
\* on; and after a scan-out that terminates every device the decoder is in
\* idle with every device's irLength set.
C13_IdleAfterTerminating ==
    (After("IR TDO", "countingDevices") /\ NoQuirksOnChain /\ devices # <<>>) =>
        /\ \A i \in 1..Len(devices) :
             devices[i].irLength # Unset =>
                /\ devices[i].irPrescan = Starts(event.bits, i - 1)
                /\ devices[i].irLength =
                      NextOne(event.bits, Starts(event.bits, i - 1))
                        - Starts(event.bits, i - 1)
                /\ devices[i].irLength >= 2
        /\ Annotated("Buggy IR[0]") <=> LogicalBit(event.bits, 0) = 0
        /\ TerminatesAll(event.bits, Len(devices)) =>
                /\ raised = "none"
                /\ chainState = "idle"
                /\ \A i \in 1..Len(devices) : devices[i].irLength # Unset

\* C13, amended: the lengths, the prescans and the 'Buggy IR[0]' note are as
\* stated; after a scan-out that terminates every device and holds no
\* further IR beyond the last device's the decoder is in idle with every
\* device's irLength set, and after a scan-out that terminates every device
\* and then holds a further complete IR the decoder is in inError with an
\* 'Error decoding IR' annotation.
C13_IRLengthsWithoutQuirks ==
    (After("IR TDO", "countingDevices") /\ NoQuirksOnChain /\ devices # <<>>) =>
        /\ \A i \in 1..Len(devices) :
             devices[i].irLength # Unset =>
                /\ devices[i].irPrescan = Starts(event.bits, i - 1)
                /\ devices[i].irLength =
                      NextOne(event.bits, Starts(event.bits, i - 1))
                        - Starts(event.bits, i - 1)
                /\ devices[i].irLength >= 2
        /\ Annotated("Buggy IR[0]") <=> LogicalBit(event.bits, 0) = 0
        /\ TerminatesAll(event.bits, Len(devices)) =>
                /\ raised = "none"
                /\ \A i \in 1..Len(devices) : devices[i].irLength # Unset
                /\ IF EndsThere(event.bits, Len(devices))
                   THEN chainState = "idle"
                   ELSE chainState = "inError" /\ Annotated("Error decoding IR")

\* Two devices without quirks, the first with a leading IR bit of 0, got
\* IRs of 2 and 3 bits.
C13_Witness ==
    /\ After("IR TDO", "countingDevices")
    /\ NoQuirksOnChain
    /\ Len(devices) = 2
    /\ Annotated("Buggy IR[0]")
    /\ chainState = "idle"
    /\ devices[1].irLength = 2
    /\ devices[2].irLength = 3

\* The sum of irLength over the devices at positions lo..hi of self.devices.
RECURSIVE SumIRLength(_, _)
SumIRLength(lo, hi) ==
    IF lo > hi THEN 0 ELSE devices[lo].irLength + SumIRLength(lo + 1, hi)

\* C14: whenever IR length discovery has completed and the decoder is in
\* idle, every device's irPrescan is the sum of irLength over the devices
\* before it and its irPostscan the sum over the devices after it, so
\* irPrescan + irLength + irPostscan is the same total for all devices.
C14_IRScanOffsets ==
    chainState = "idle" =>
        \A i \in 1..Len(devices) :
            /\ devices[i].irLength # Unset
            /\ devices[i].irPrescan = SumIRLength(1, i - 1)
            /\ devices[i].irPostscan = SumIRLength(i + 1, Len(devices))
            /\ devices[i].irPrescan + devices[i].irLength + devices[i].irPostscan
                 = SumIRLength(1, Len(devices))

\* Discovery has just completed on a chain of three devices.
C14_Witness ==
    /\ chainState = "idle"
    /\ prevState \in {"countingDevices", "awaitingIDCodes"}
    /\ Len(devices) = 3
    /\ devices[2].irPrescan = 2
    /\ devices[2].irPostscan = 2

\* Bit q of the expected value of a device's IR quirk.
QuirkBit(irQuirks, q) == (irQuirks.value \div Pow2(q)) % 2

\* The first bits of the scan-out equal the quirk's pattern bit for bit.
MatchesQuirk(bitstr, irQuirks) ==
    /\ Len(bitstr) >= irQuirks.length
    /\ \A q \in 0..(irQuirks.length - 1) : LogicalBit(bitstr, q) = QuirkBit(irQuirks, q)

\* C15: for a first device with a registered IR quirk, an IR scan-out whose
\* bits equal the expected pattern bit for bit is accepted and the device
\* gets exactly the quirk's length, and a scan-out that differs from the
\* pattern in a bit puts the decoder in inError with an 'Error decoding IR'
\* annotation.
C15_QuirkPatternAccepted ==
    (After("IR TDO", "countingDevices") /\ devices # <<>>) =>
        LET validated(irQuirks) ==
                (irQuirks # NoQuirks /\ Len(event.bits) >= irQuirks.length) =>
                    IF MatchesQuirk(event.bits, irQuirks)
                    THEN devices[1].irLength = irQuirks.length
                    ELSE chainState = "inError" /\ Annotated("Error decoding IR")
        IN  validated(devices[1].quirks)

\* The logical bits begin..(begin + width - 1) of a bitstring, as a value.
Window(bitstr, begin, width) ==
    { q \in 0..(width - 1) : LogicalBit(bitstr, begin + q) = 1 }

\* C16, as stated: every 'IR TDI' data event in awaitingIR gives every
\* device as its current instruction exactly the bits
\* [irPrescan, irPrescan + irLength) of the string, leaves every per-TAP
\* decoder in the state that its instruction value stands for, and returns
\* the chain decoder to idle.
C16_EveryIRChangeSlices ==
    After("IR TDI", "awaitingIR") =>
        /\ chainState = "idle"
        /\ \A i \in 1..Len(devices) :
             /\ devices[i].currentInsn =
                   Window(event.bits, devices[i].irPrescan, devices[i].irLength)
             /\ devices[i].tapDecoder.present =>
                   devices[i].tapDecoder.state = InsnState(instruction(devices[i]))

\* C16, for the strings that hold the chain's IR bits (a shorter string
\* makes handleIRChange raise): an 'IR TDI' data event in awaitingIR that
\* holds the IR bits of the whole chain gives every device as its current
\* instruction exactly the bits [irPrescan, irPrescan + irLength) of the
\* string, leaves every per-TAP decoder in the state that its instruction
\* value stands for, and returns the chain decoder to idle.
C16_IRChangeSlices ==
    (/\ After("IR TDI", "awaitingIR")
     /\ Len(event.bits) >= SumIRLength(1, Len(devices))) =>
        /\ raised = "none"
        /\ chainState = "idle"
        /\ \A i \in 1..Len(devices) :
             /\ devices[i].currentInsn =
                   Window(event.bits, devices[i].irPrescan, devices[i].irLength)
             /\ devices[i].tapDecoder.present =>
                   devices[i].tapDecoder.state = InsnState(instruction(devices[i]))

\* A 4-bit ADIv5 TAP was given DPACC and the 2-bit device after it BYPASS.
C16_Witness ==
    /\ After("IR TDI", "awaitingIR")
    /\ Len(devices) = 2
    /\ devices[1].irLength = 4
    /\ devices[1].currentInsn = {1, 3}
    /\ devices[1].tapDecoder.state = "dpAccess"
    /\ devices[2].currentInsn = {0, 1}

\* C17: in awaitingDR, a 'DR TDO' bitstring whose length differs from that
\* of the 'DR TDI' bitstring before it puts the decoder in inError, and no
\* DR slice is made for a device in that exchange.
C17_MismatchedLengths ==
    [][(/\ chainState = "awaitingDR"
        /\ dataIn # None
        /\ event'.action = "DR TDO"
        /\ Len(event'.bits) # Len(dataIn)) =>
            /\ chainState' = "inError"
            /\ raised' = "none"
            /\ drLengths' = <<>>
            /\ decodeDataCalls' = <<>>
            /\ \A k \in 1..Len(chainAnn') : chainAnn'[k].text # "DR"]_vars

\* A DR exchange with strings of different lengths has ended in inError.
C17_Witness ==
    /\ After("DR TDO", "awaitingDR")
    /\ Annotated("Mismatched TDI and TDO lengths")
    /\ chainState = "inError"

\* The positions of the devices whose DR length is unknown.
UnknownDRs == { i \in 1..Len(devices) : drLength(devices[i]) = NoneLength }

\* The sum of the known DR lengths of the devices at positions 1..i.
RECURSIVE KnownDRTotal(_)
KnownDRTotal(i) ==
    IF i = 0 THEN 0
    ELSE (IF i \in UnknownDRs THEN 0 ELSE drLength(devices[i])) + KnownDRTotal(i - 1)

\* The last event was a 'DR TDO' that ended a DR exchange of strings of the
\* same length.
ExchangeSplit ==
    /\ After("DR TDO", "awaitingDR")
    /\ raised # "AttributeError"
    /\ ~Annotated("Mismatched TDI and TDO lengths")

\* C18: in a DR exchange with exactly one device of unknown DR length that
\* device is given the total length minus the sum of the known lengths and
\* the others keep theirs; with two or more such devices the exchange gets
\* the one annotation 'Too many unknown DR lengths', nothing is passed to
\* a device, and the decoder is in idle.
C18_UnknownDRLengths ==
    ExchangeSplit =>
        /\ Cardinality(UnknownDRs) = 1 =>
             /\ Len(drLengths) = Len(devices)
             /\ \A i \in 1..Len(devices) :
                  drLengths[i] =
                    IF i \in UnknownDRs
                    THEN Len(event.bits) - KnownDRTotal(Len(devices))
                    ELSE drLength(devices[i])
        /\ Cardinality(UnknownDRs) >= 2 =>
             /\ chainState = "idle"
             /\ raised = "none"
             /\ Len(chainAnn) = 1
             /\ chainAnn[1].text = "Too many unknown DR lengths"
             /\ decodeDataCalls = <<>>

\* An ADIv5 TAP in DPACC (35 bits) and a device of unknown DR length have
\* shared an exchange of 36 bits.
C18_Witness ==
    /\ ExchangeSplit
    /\ Cardinality(UnknownDRs) = 1
    /\ drLengths = <<35, 1>>
    /\ chainState = "idle"

\* The calls of decodeData made for the device at position i.
CallsFor(i) == { k \in 1..Len(decodeDataCalls) : decodeDataCalls[k].device = i }

\* C19: in every DR exchange that was split without error, each device
\* that owns a per-TAP ADIv5 decoder has decodeData invoked exactly once,
\* with its own slice of the TDI and of the TDO stream.
C19_SlicesForwarded ==
    (/\ ExchangeSplit
     /\ raised = "none"
     /\ Cardinality(UnknownDRs) <= 1) =>
        \A i \in 1..Len(devices) :
            devices[i].tapDecoder.present => Cardinality(CallsFor(i)) = 1

\* C20: once the decoder is in inError, a data event or a state change
\* other than TEST-LOGIC-RESET leaves it in inError, and TEST-LOGIC-RESET
\* takes it to awaitingIDCodes.
C20_ErrorUntilReset ==
    [][chainState = "inError" =>
         IF event'.action = "NEW STATE" /\ event'.name = "TEST-LOGIC-RESET"
         THEN chainState' = "awaitingIDCodes"
         ELSE chainState' = "inError" /\ raised' = "none"]_vars

\* A reset has taken the decoder out of inError.
C20_Witness ==
    /\ prevState = "inError"
    /\ event.name = "TEST-LOGIC-RESET"
    /\ chainState = "awaitingIDCodes"

\* C21: no sequence of events makes the decoder raise: after an ID-code
\* scan that yields no device, after an IR scan-out too short to terminate
\* every device, and after a 'DR TDO' with no 'DR TDI' before it, the
\* decoder is in a state of its own and decoding goes on.
C21_NeverRaises == raised = "none"

\* The state and the DR length that stand for a 4-bit instruction value.
InsnTable(value) ==
    CASE value = 8 -> [state |-> "abort", length |-> 35]
      [] value = 10 -> [state |-> "dpAccess", length |-> 35]
      [] value = 11 -> [state |-> "apAccess", length |-> 35]
      [] value = 14 -> [state |-> "idle", length |-> 32]
      [] value = 15 -> [state |-> "idle", length |-> 1]
      [] OTHER -> [state |-> "inError", length |-> NoneLength]

\* The instruction value of a device as the table sees it: the low four bits
\* of the instruction register, and for an 8-bit register whose upper four
\* bits are not all set a value that the table does not know.
InsnValue(device) ==
    IF device.irLength = 8 /\ ~((4..7) \subseteq device.currentInsn)
    THEN 0
    ELSE ToInt(device.currentInsn \cap (0..3))

\* C22: the 4-bit instruction value of an ADIv5 TAP determines the state of
\* its decoder and its DR length: 0x8 abort/35, 0xA dpAccess/35, 0xB
\* apAccess/35, 0xE idle/32, 0xF idle/1, every other value inError with no
\* DR length; an 8-bit value whose upper four bits are not 0xF counts as an
\* unknown instruction.
C22_InstructionTable ==
    \A i \in 1..Len(devices) :
        (devices[i].tapDecoder.present /\ devices[i].currentInsn # NoInsn) =>
            /\ devices[i].tapDecoder.state = InsnTable(InsnValue(devices[i])).state
            /\ drLength(devices[i]) = InsnTable(InsnValue(devices[i])).length

\* An ADIv5 TAP with an 8-bit IR was given 0x0A: DPACC in the low four bits,
\* but not an instruction.
C22_Witness ==
    /\ After("IR TDI", "awaitingIR")
    /\ Len(devices) = 1
    /\ devices[1].irLength = 8
    /\ devices[1].currentInsn = {1, 3}
    /\ devices[1].tapDecoder.state = "inError"
    /\ drLength(devices[1]) = NoneLength

\* ======================================================================
\* The per-TAP ADIv5 decoder on its own (decoders/jtag_adiv5/adiv5.py): one
\* JTAGDevice of an ADIv5 TAP with a 4-bit IR, given instructions through
\* irChange and 35-bit exchanges through ADIv5Decoder.decodeData.  A call
\* that raises leaves the objects as they are, and the next call is made on
\* them.
\* ======================================================================

\* The greatest number of decodeData calls that is followed.
MaxExchanges == 3

\* ADIv5Transaction.__init__, with the ack setter
ADIv5Transaction(tdi, tdo, tapState) ==
    [state |-> tapState,
     rnw |-> BitOf(tdi, 0),
     addr |-> 4 * ToInt(Field(tdi, 1, 2)),
     request |-> Field(tdi, 3, 32),
     ack |-> LET ackOf(value) == IF value = 2 THEN "ok"
                                 ELSE IF value = 1 THEN "wait" ELSE "fault"
             IN  ackOf(ToInt(Field(tdo, 0, 3))),
     response |-> Field(tdo, 3, 32)]

\* ADIv5DPSelect.__init__ and changeValue
ADIv5DPSelect(value) ==
    [apsel |-> ToInt(Field(value, 24, 8)),
     apBank |-> ToInt(Field(value, 4, 4)),
     dpBank |-> ToInt(Field(value, 0, 4))]

\* The instructions irChange is called with: ABORT, DPACC, APACC, BYPASS and
\* one that is no instruction.
TapInsns == { {3}, {1, 3}, {0, 1, 3}, {0, 1, 2, 3}, {0, 1} }

\* The request bits of the exchanges: a write of 0xF0 to address 8, a read
\* of address 0xC, a read of address 0 and a write of 1 to address 0.
TapDataIn ==
    { Shl(HexBits(<<15, 0>>), 3) \cup {2}, {0, 1, 2}, {0}, {3} }

\* The response bits of the exchanges: an OK ack with the ID of a MEM-AP,
\* and a WAIT ack.
TapDataOut ==
    { Shl(HexBits(<<0, 0, 0, 1, 0, 0, 0, 1>>), 3) \cup {1}, {0} }

\* The first and the last sample of an exchange.
TapBegin == 0
TapEnd == 34

\* JTAGDevice.__init__, setupDecoder, and the IR geometry the chain decoder
\* gives the only device of a chain; ADIv5Decoder.__init__
InitTap ==
    /\ ChainStart
    /\ TrackerStart
    /\ state = "unknown"
    /\ request = {} /\ ack = {} /\ data = {}
    /\ computedParity = 0 /\ actualParity = 0 /\ bits = 0
    /\ ann = NoAnn /\ py = NoPy
    /\ clk = 0 /\ line = 0
    /\ wire = <<>> /\ wirePhase = "none"
    /\ alertPos = 0 /\ flips = 0 /\ lastAck = "none"
    /\ highRun = 0 /\ runUnk = FALSE /\ dwEdges = 0
    /\ tapDevice =
           [setupDecoder(JTAGDevice(0, HexBits(<<4, 11, 10, 0, 0, 4, 7, 7>>)))
               EXCEPT !.irLength = 4, !.irPrescan = 0, !.irPostscan = 0,
                      !.drPostscan = 0]
    /\ select = ADIv5DPSelect({})
    /\ transaction = None
    /\ transactionNumber = 0
    /\ ap = <<>>
    /\ tapAnn = <<>>
    /\ tapRaised = "none"
    /\ exchanges = <<>>
    /\ regCall = <<>>
    /\ regResult = <<>>

\* JTAGDevice.irChange(newInsn)
TapIRChange ==
    \E newInsn \in TapInsns :
        /\ tapDevice' = irChange(tapDevice, newInsn)
        /\ tapAnn' = <<irChangeAnn(tapDevice, newInsn)>>
        /\ tapRaised' = "none"
        /\ UNCHANGED <<select, transaction, transactionNumber, ap, exchanges,
                       regCall, regResult, swdVars, chainVars, trackVars>>

\* ADIv5Decoder.decodeData(begin, end, dataIn, dataOut): nothing in the idle
\* state; with no DR length (self.drLength + 3) raises TypeError; otherwise
\* the data annotation is put, the transaction is constructed, and
\* self.device.dpIndex raises AttributeError, JTAGDevice having no such
\* attribute.
TapDecodeData ==
    \E tdi \in TapDataIn, tdo \in TapDataOut :
        /\ Len(exchanges) < MaxExchanges
        /\ exchanges' = Append(exchanges,
               [state |-> tapDevice.tapDecoder.state, dataIn |-> tdi, dataOut |-> tdo])
        /\ IF tapDevice.tapDecoder.state = "idle"
           THEN tapAnn' = <<>> /\ tapRaised' = "none"
           ELSE IF tapDrLength(tapDevice) = NoneLength
           THEN tapAnn' = <<>> /\ tapRaised' = "TypeError"
           ELSE /\ tapAnn' = <<ChainAnnotation(TapBegin, TapEnd, "JTAG_ITEM",
                                   InsnName(instruction(tapDevice)), <<tdi, tdo>>)>>
                /\ tapRaised' = "AttributeError"
        /\ UNCHANGED <<tapDevice, select, transaction, transactionNumber, ap,
                       regCall, regResult, swdVars, chainVars, trackVars>>

NextTap == TapIRChange \/ TapDecodeData

SpecTap == InitTap /\ [][NextTap]_vars

\* The exchanges made under DPACC or APACC.
Accesses == SelectSeq(exchanges, LAMBDA x : x.state \in {"dpAccess", "apAccess"})

\* C23: for any sequence of DPACC/APACC exchanges the first one resolves no
\* transaction, every later one resolves the request of the one before it
\* and leaves its own request as the pending transaction, and the number of
\* resolved transactions is the number of such exchanges minus one.
C23_LaggedTransactions ==
    Accesses # <<>> =>
        /\ tapRaised = "none"
        /\ transactionNumber = Len(Accesses) - 1
        /\ LET pending(x) == ADIv5Transaction(x.dataIn, x.dataOut, x.state)
           IN  /\ transaction # None
               /\ transaction.state = pending(Accesses[Len(Accesses)]).state
               /\ transaction.rnw = pending(Accesses[Len(Accesses)]).rnw
               /\ transaction.addr = pending(Accesses[Len(Accesses)]).addr
               /\ transaction.request = pending(Accesses[Len(Accesses)]).request

\* The last exchange was made under ABORT and is a read or has an address
\* other than 0.
InvalidAbort(x) ==
    /\ x.state = "abort"
    /\ \/ ADIv5Transaction(x.dataIn, x.dataOut, x.state).rnw = 1
       \/ ADIv5Transaction(x.dataIn, x.dataOut, x.state).addr # 0

\* C24: an exchange under ABORT is handled at once: a read, or an address
\* other than 0, is annotated 'Invalid request'; valid or not, the exchange
\* leaves the pending transaction, the transaction counter, the SELECT
\* shadow and the AP map as they were.
C24_AbortHandledAtOnce ==
    [][(exchanges' # exchanges /\ exchanges'[Len(exchanges')].state = "abort") =>
          /\ UNCHANGED <<transaction, transactionNumber, select, ap>>
          /\ InvalidAbort(exchanges'[Len(exchanges')]) =>
                 \E k \in 1..Len(tapAnn') : tapAnn'[k].text = "Invalid request"]_vars

\* ======================================================================
\* The register decoders of decoders/jtag_adiv5/adiv5.py, each called on its
\* own: ADIv5Decoder.decodeDPReg, the decoder ADIv5AP.regDecoder selects,
\* and ADIv5AP.handleRegRead.
\* ======================================================================

\* ADIv5RnW
write == 0
read == 1

\* ADIv5APKind
APKinds == {"jtag", "com", "mem", "unknown"}

\* The name of a register: its text, and the number formatted into it.
RegName(text, n) == [name |-> text, n |-> n]
Named(text) == RegName(text, Unset)

\* A variant of decodeDPReg that reads SELECT at register 8 of bank 0 in
\* every version of the DP.
decodeDPRegReadSelect(dpVersion, dpBank, rnw, reg) ==
    LET named(bank) ==
            IF rnw = write /\ reg = 8 THEN "SELECT"
            ELSE IF rnw = read /\ reg = 12 THEN "RDBUFF"
            ELSE IF bank = 0 /\ reg = 4 THEN "CTRL/STAT"
            ELSE IF bank = 0 /\ rnw = read /\ reg = 8 THEN "SELECT"
            ELSE IF dpVersion >= 1 /\ rnw = read /\ reg = 0 THEN "DPIDR"
            ELSE IF dpVersion >= 1 /\ bank = 1 /\ reg = 4 THEN "DLCR"
            ELSE IF dpVersion >= 2 /\ rnw = read /\ reg = 4 /\ bank = 2 THEN "TARGETID"
            ELSE IF dpVersion >= 2 /\ rnw = read /\ reg = 4 /\ bank = 3 THEN "DLPIDR"
            ELSE IF dpVersion >= 2 /\ rnw = read /\ reg = 4 /\ bank = 4 THEN "EVENTSTAT"
            ELSE "INVALID"
    IN  named(IF dpVersion = 0 THEN 0 ELSE dpBank)

\* A variant of decodeDPReg that takes the bank from SELECT in every version
\* of the DP.
decodeDPRegBanked(dpVersion, dpBank, rnw, reg) ==
    LET named(bank) ==
            IF rnw = write /\ reg = 8 THEN "SELECT"
            ELSE IF rnw = read /\ reg = 12 THEN "RDBUFF"
            ELSE IF bank = 0 /\ reg = 4 THEN "CTRL/STAT"
            ELSE IF bank = 0 /\ dpVersion = 0 /\ rnw = read /\ reg = 8 THEN "SELECT"
            ELSE IF dpVersion >= 1 /\ rnw = read /\ reg = 0 THEN "DPIDR"
            ELSE IF dpVersion >= 1 /\ bank = 1 /\ reg = 4 THEN "DLCR"
            ELSE IF dpVersion >= 2 /\ rnw = read /\ reg = 4 /\ bank = 2 THEN "TARGETID"
            ELSE IF dpVersion >= 2 /\ rnw = read /\ reg = 4 /\ bank = 3 THEN "DLPIDR"
            ELSE IF dpVersion >= 2 /\ rnw = read /\ reg = 4 /\ bank = 4 THEN "EVENTSTAT"
            ELSE "INVALID"
    IN  named(dpBank)

\* ADIv5Decoder.decodeDPReg, of self.dpVersion, self.select.dpBank,
\* transaction.rnw and transaction.addr
decodeDPReg(dpVersion, dpBank, rnw, reg) ==
    LET named(bank) ==
            IF rnw = write /\ reg = 8 THEN "SELECT"
            ELSE IF rnw = read /\ reg = 12 THEN "RDBUFF"
            ELSE IF bank = 0 /\ reg = 4 THEN "CTRL/STAT"
            ELSE IF bank = 0 /\ dpVersion = 0 /\ rnw = read /\ reg = 8 THEN "SELECT"
            ELSE IF dpVersion >= 1 /\ rnw = read /\ reg = 0 THEN "DPIDR"
            ELSE IF dpVersion >= 1 /\ bank = 1 /\ reg = 4 THEN "DLCR"
            ELSE IF dpVersion >= 2 /\ rnw = read /\ reg = 4 /\ bank = 2 THEN "TARGETID"
            ELSE IF dpVersion >= 2 /\ rnw = read /\ reg = 4 /\ bank = 3 THEN "DLPIDR"
            ELSE IF dpVersion >= 2 /\ rnw = read /\ reg = 4 /\ bank = 4 THEN "EVENTSTAT"
            ELSE "INVALID"
    IN  named(IF dpVersion = 0 THEN 0 ELSE dpBank)

\* A variant of decodeUnknownAPReg that names the IDR for a write as well.
decodeUnknownAPRegAnyDirection(rnw, addr) ==
    IF addr = 252 THEN Named("IDR") ELSE RegName("INVALID", addr)

\* decodeUnknownAPReg
decodeUnknownAPReg(rnw, addr) ==
    IF rnw = read /\ addr = 252 THEN Named("IDR") ELSE RegName("INVALID", addr)

\* decodeJTAGAPReg
decodeJTAGAPReg(rnw, addr) ==
    IF addr = 0 THEN Named("CSW")
    ELSE IF addr = 4 THEN Named("PSEL")
    ELSE IF addr = 8 THEN Named("PSTA")
    ELSE IF 16 <= addr /\ addr <= 28 THEN RegName("BRFIFO", ((addr \div 4) % 4) + 1)
    ELSE decodeUnknownAPReg(rnw, addr)

\* decodeMemAPReg
decodeMemAPReg(rnw, addr) ==
    IF addr = 0 THEN Named("CSW")
    ELSE IF addr = 4 THEN Named("TAR (low)")
    ELSE IF addr = 8 THEN Named("TAR (high)")
    ELSE IF addr = 12 THEN Named("DRW")
    ELSE IF 16 < addr /\ addr < 28 THEN RegName("BD", (addr \div 4) % 4)
    ELSE IF addr = 32 THEN Named("MBT")
    ELSE IF addr = 48 THEN Named("T0TR")
    ELSE IF rnw = read /\ addr = 224 THEN Named("CFG1")
    ELSE IF rnw = read /\ addr = 240 THEN Named("BASE (high)")
    ELSE IF rnw = read /\ addr = 244 THEN Named("CFG")
    ELSE IF rnw = read /\ addr = 248 THEN Named("BASE (low)")
    ELSE decodeUnknownAPReg(rnw, addr)

\* ADIv5AP.regDecoder, called with (rnw, addr)
regDecoder(kind, rnw, addr) ==
    IF kind = "jtag" THEN decodeJTAGAPReg(rnw, addr)
    ELSE IF kind = "mem" THEN decodeMemAPReg(rnw, addr)
    ELSE decodeUnknownAPReg(rnw, addr)

\* ADIv5APIdentReg.__init__: the kind
ADIv5APIdentReg(value) ==
    LET kind(apClass, apType) ==
            IF apType = 0 /\ apClass = 0 THEN "jtag"
            ELSE IF apType = 0 /\ apClass = 1 THEN "com"
            ELSE IF 1 <= apType /\ apType <= 8 /\ apClass = 8 THEN "mem"
            ELSE "unknown"
    IN  kind(ToInt(Field(value, 13, 4)), ToInt(Field(value, 0, 4)))

\* ADIv5AP.handleRegRead(addr, bank, value): the kind of the AP afterwards
handleRegRead(kind, addr, bank, value) ==
    IF 16 * bank + addr = 252 THEN ADIv5APIdentReg(value) ELSE kind

\* The arguments the decoders are called with: the versions of the DP, the
\* values of a four-bit bank, the register addresses of a request, the
\* addresses of the registers of an AP, and ID register values of a JTAG-AP,
\* a COM-AP, two MEM-APs and two APs of no known kind.
DPVersions == 0..2
Banks == 0..15
RegAddrs == {0, 4, 8, 12}
APAddrs == { 16 * b + r : b \in Banks, r \in RegAddrs }
IDRValues ==
    { {}, {13}, HexBits(<<0, 0, 0, 1, 0, 0, 0, 1>>), HexBits(<<2, 4, 7, 7, 0, 0, 0, 8>>),
      HexBits(<<0, 0, 0, 1, 0, 0, 0, 9>>), HexBits(<<0, 0, 0, 0, 0, 0, 0, 1>>) }

RegCalls ==
    { [fn |-> "decodeDPReg", dpVersion |-> v, bank |-> b, rnw |-> d, addr |-> r,
       kind |-> "unknown", value |-> {}] :
          v \in DPVersions, b \in Banks, d \in {write, read}, r \in RegAddrs }
    \cup
    { [fn |-> "regDecoder", dpVersion |-> 0, bank |-> 0, rnw |-> d, addr |-> a,
       kind |-> k, value |-> {}] :
          d \in {write, read}, a \in APAddrs, k \in APKinds }
    \cup
    { [fn |-> "handleRegRead", dpVersion |-> 0, bank |-> b, rnw |-> read, addr |-> r,
       kind |-> k, value |-> x] :
          b \in {0, 15}, r \in RegAddrs, k \in APKinds, x \in IDRValues }

\* No call has returned; a call has returned value.
NoResult == [returned |-> FALSE, value |-> <<>>]
Result(value) == [returned |-> TRUE, value |-> value]

InitRegs ==
    /\ ChainStart
    /\ TrackerStart
    /\ state = "unknown"
    /\ request = {} /\ ack = {} /\ data = {}
    /\ computedParity = 0 /\ actualParity = 0 /\ bits = 0
    /\ ann = NoAnn /\ py = NoPy
    /\ clk = 0 /\ line = 0
    /\ wire = <<>> /\ wirePhase = "none"
    /\ alertPos = 0 /\ flips = 0 /\ lastAck = "none"
    /\ highRun = 0 /\ runUnk = FALSE /\ dwEdges = 0
    /\ tapDevice = <<>>
    /\ select = <<>>
    /\ transaction = <<>>
    /\ transactionNumber = 0
    /\ ap = <<>>
    /\ tapAnn = <<>>
    /\ tapRaised = "none"
    /\ exchanges = <<>>
    /\ regCall \in RegCalls
    /\ regResult = NoResult

RegFrame ==
    UNCHANGED <<regCall, tapDevice, select, transaction, transactionNumber, ap,
                tapAnn, tapRaised, exchanges, swdVars, chainVars, trackVars>>

\* decodeDPReg(transaction)
ApplyDecodeDPReg ==
    /\ regCall.fn = "decodeDPReg"
    /\ ~regResult.returned
    /\ regResult' = Result(decodeDPReg(regCall.dpVersion, regCall.bank, regCall.rnw, regCall.addr))
    /\ RegFrame

\* ap.regDecoder(rnw, address)
ApplyRegDecoder ==
    /\ regCall.fn = "regDecoder"
    /\ ~regResult.returned
    /\ regResult' = Result(regDecoder(regCall.kind, regCall.rnw, regCall.addr))
    /\ RegFrame

\* ap.handleRegRead(addr, bank, value)
ApplyHandleRegRead ==
    /\ regCall.fn = "handleRegRead"
    /\ ~regResult.returned
    /\ regResult' = Result(handleRegRead(regCall.kind, regCall.addr, regCall.bank, regCall.value))
    /\ RegFrame

NextRegs == ApplyDecodeDPReg \/ ApplyRegDecoder \/ ApplyHandleRegRead

SpecRegs == InitRegs /\ [][NextRegs]_vars

\* The call fn has returned.
Returned(fn) == regCall.fn = fn /\ regResult.returned

\* The rule table of the DP registers, in its order, for a bank.
DPRegisterTable(version, bank, rnw, reg) ==
    CASE rnw = write /\ reg = 8 -> "SELECT"
      [] rnw = read /\ reg = 12 -> "RDBUFF"
      [] OTHER ->
         CASE bank = 0 /\ reg = 4 -> "CTRL/STAT"
           [] bank = 0 /\ version = 0 /\ rnw = read /\ reg = 8 -> "SELECT"
           [] OTHER ->
              CASE version >= 1 /\ rnw = read /\ reg = 0 -> "DPIDR"
                [] version >= 1 /\ bank = 1 /\ reg = 4 -> "DLCR"
                [] version >= 2 /\ rnw = read /\ reg = 4 /\ bank = 2 -> "TARGETID"
                [] version >= 2 /\ rnw = read /\ reg = 4 /\ bank = 3 -> "DLPIDR"
                [] version >= 2 /\ rnw = read /\ reg = 4 /\ bank = 4 -> "EVENTSTAT"
                [] OTHER -> "INVALID"

\* C25 as stated: for every DP version, DP bank, direction and register
\* address the DP register name follows the rule table, the bank of the
\* table being the DP bank held in SELECT.
C25_TableOfSelectBank ==
    Returned("decodeDPReg") =>
        regResult.value =
            DPRegisterTable(regCall.dpVersion, regCall.bank, regCall.rnw, regCall.addr)

\* C25, amended: for every DP version, DP bank, direction and register
\* address the DP register name follows the rule table, the bank of the
\* table being the DP bank held in SELECT for a DP of version 1 or 2 and
\* bank 0 for a DP of version 0, whatever SELECT holds.
C25_DPRegisterTable ==
    Returned("decodeDPReg") =>
        regResult.value =
            DPRegisterTable(regCall.dpVersion,
                IF regCall.dpVersion = 0 THEN 0 ELSE regCall.bank,
                regCall.rnw, regCall.addr)

\* A version-0 DP with bank 5 in SELECT: a write of register 4 is CTRL/STAT.
C25_Witness ==
    /\ Returned("decodeDPReg")
    /\ regCall.dpVersion = 0 /\ regCall.bank = 5
    /\ regCall.rnw = write /\ regCall.addr = 4
    /\ regResult.value = "CTRL/STAT"

\* C26: for a DP of version 0, two runs that differ only in the DP bank
\* held in SELECT resolve every DP access, of either direction and any
\* register address, to the same register name.
C26_BankIgnoredInVersion0 ==
    (Returned("decodeDPReg") /\ regCall.dpVersion = 0) =>
        \A other \in Banks :
            regResult.value = decodeDPReg(0, other, regCall.rnw, regCall.addr)

\* A version-0 DP with bank 3 in SELECT reads register 8 as SELECT, as it
\* does with bank 0.
C26_Witness ==
    /\ Returned("decodeDPReg")
    /\ regCall.dpVersion = 0 /\ regCall.bank = 3
    /\ regCall.rnw = read /\ regCall.addr = 8
    /\ regResult.value = "SELECT"
    /\ decodeDPReg(0, 0, read, 8) = "SELECT"

\* The addresses the register table of a kind of AP maps, for a direction.
MappedByKind(kind, rnw) ==
    IF kind = "jtag" THEN {0, 4, 8, 16, 20, 24, 28}
    ELSE IF kind = "mem"
    THEN {0, 4, 8, 12, 20, 24, 32, 48} \cup (IF rnw = read THEN {224, 240, 244, 248} ELSE {})
    ELSE {}

\* C27: for every kind of AP a read of address 0xFC resolves to 'IDR', and
\* every other address the table of the kind does not map resolves to the
\* generic form that carries the address; the decoder always returns a
\* name.
C27_IDRAndUnmapped ==
    Returned("regDecoder") =>
        /\ regResult.value.name # ""
        /\ (regCall.rnw = read /\ regCall.addr = 252) => regResult.value = Named("IDR")
        /\ (regCall.addr \notin MappedByKind(regCall.kind, regCall.rnw)
              /\ ~(regCall.rnw = read /\ regCall.addr = 252)) =>
                 regResult.value = RegName("INVALID", regCall.addr)

\* A MEM-AP: a write of 0xF8, which the table maps for reads only, took the
\* generic form.
C27_Witness ==
    /\ Returned("regDecoder")
    /\ regCall.kind = "mem" /\ regCall.rnw = write /\ regCall.addr = 248
    /\ regResult.value = RegName("INVALID", 248)

\* C28: the four banked registers are named by index 0..3: the addresses
\* 0x10, 0x14, 0x18, 0x1C resolve to BD0..BD3 for a MEM-AP and to
\* BRFIFO0..BRFIFO3 for a JTAG-AP.
C28_BankedRegisters ==
    (Returned("regDecoder") /\ regCall.addr \in {16, 20, 24, 28}) =>
        /\ regCall.kind = "mem" => regResult.value = RegName("BD", (regCall.addr - 16) \div 4)
        /\ regCall.kind = "jtag" =>
               regResult.value = RegName("BRFIFO", (regCall.addr - 16) \div 4)

\* The exchanges of an ID register read that is answered OK by a MEM-AP:
\* DPACC write of 0xF0 to SELECT (AP 0, bank 0xF), APACC read of address
\* 0xC, and an APACC exchange whose response carries the OK ack and the ID
\* 0x00010001.
IDRReadAnswered ==
    /\ Len(exchanges) = 3
    /\ exchanges[1].state = "dpAccess"
    /\ exchanges[1].dataIn = Shl(HexBits(<<15, 0>>), 3) \cup {2}
    /\ exchanges[2].state = "apAccess"
    /\ exchanges[2].dataIn = {0, 1, 2}
    /\ exchanges[3].state = "apAccess"
    /\ ADIv5Transaction(exchanges[3].dataIn, exchanges[3].dataOut, "apAccess").ack = "ok"
    /\ ADIv5APIdentReg(
           ADIv5Transaction(exchanges[3].dataIn, exchanges[3].dataOut, "apAccess").response)
         = "mem"

\* C29: the kind of an AP changes only when the response to a pending AP
\* read of address 0xFC carries an OK ack; after an OK response with apType
\* in 1..8 and apClass 8 the kind is MEM-AP, and a read of address 0xF8 on
\* that AP resolves to 'BASE (low)'.
C29_OKIDRSetsKind ==
    /\ \A i \in DOMAIN ap : ap[i] # "unknown" => IDRReadAnswered
    /\ IDRReadAnswered =>
           /\ 0 \in DOMAIN ap
           /\ ap[0] = "mem"
           /\ regDecoder(ap[0], read, 248) = Named("BASE (low)")

\* C30: the kind of an AP is set at most once, from the first ID register
\* value observed: an ID register read of an AP whose kind was set by an
\* earlier one leaves the kind as it was, whatever value it carries.
C30_KindSetOnce ==
    (Returned("handleRegRead") /\ regCall.kind # "unknown") =>
        regResult.value = regCall.kind

\* The sum of a list of lengths.
RECURSIVE SumLengths(_)
SumLengths(lengths) ==
    IF lengths = <<>> THEN 0 ELSE Head(lengths) + SumLengths(Tail(lengths))

\* C39: in every DR exchange that is split per device the slices are
\* contiguous and in device order, each is at least 1 bit long and lies
\* inside the exchange, and their lengths sum to the length of the
\* exchange, with no unknown DR length as with one inferred length.
C39_SlicesCoverExchange ==
    (/\ ExchangeSplit
     /\ raised = "none"
     /\ devices # <<>>
     /\ Cardinality(UnknownDRs) <= 1) =>
        /\ Len(drLengths) = Len(devices)
        /\ Len(chainAnn) = Len(devices)
        /\ \A i \in 1..Len(devices) :
             /\ drLengths[i] >= 1
             /\ chainAnn[i].begin = SumLengths(SubSeq(drLengths, 1, i - 1))
             /\ chainAnn[i].end = chainAnn[i].begin + drLengths[i] - 1
             /\ chainAnn[i].end < Len(event.bits)
        /\ SumLengths(drLengths) = Len(event.bits)

\* C38: while the pending transaction is an AP access the AP map holds a
\* record for the AP index in the SELECT shadow.  No reachable state has a
\* pending transaction (decodeData raises before it stores one), so no
\* state puts the implication to the test.
C38_PendingAPHasRecord ==
    (transaction # None /\ transaction.state = "apAccess") =>
        select.apsel \in DOMAIN ap

\* A pending AP access: the case C38 is about.
C38_PendingAP ==
    transaction # None /\ transaction.state = "apAccess"

\* ======================================================================
\* The ADIv5 register-model tracker (decoders/adiv5/pd.py): Decoder.decode
\* is given one transaction (op, dp, addr, reg, ack, data) at a time.  An
\* exception leaves decode() and ends decoding.
\* ======================================================================

\* The greatest number of transactions that is followed.
MaxTransactions == 3

\* The ack literals ADIv5Transaction.__init__ knows, and its ADIv5Ack.
AckLiterals == {"OK", "WAIT", "FAULT", "NO-RESPONSE"}
TrackerAck(literal) ==
    CASE literal = "OK" -> "ok" [] literal = "WAIT" -> "wait"
      [] literal = "FAULT" -> "fault" [] literal = "NO-RESPONSE" -> "noResult"

\* ADIv5Transaction.__init__ of decoders/adiv5/pd.py, for an ack it knows
TrackerTransaction(t) ==
    [target |-> IF t.op \in {"AP_READ", "AP_WRITE"} THEN "ap" ELSE "dp",
     rnw |-> IF t.op \in {"DP_READ", "AP_READ"} THEN "read" ELSE "write",
     dp |-> t.dp,
     register |-> <<t.addr, t.reg>>,
     data |-> t.data,
     ack |-> TrackerAck(t.ack)]

\* ADIv5DP.__init__
ADIv5DP ==
    [abort |-> {}, ctrlstat |-> {}, select |-> [currentAP |-> 0], rdbuff |-> {},
     dpidr |-> {}, dlcr |-> {}, targetid |-> {}, dlpidr |-> {}, eventstat |-> {},
     ap |-> <<>>]

\* ADIv5DPSelect.changeValue of decoders/adiv5/pd.py
changeValue(value) == [currentAP |-> ToInt(Field(value, 24, 8))]

\* A variant of DPField that keeps CTRL/STAT in the field of ABORT.
DPFieldShared(reg) ==
    CASE reg = "ABORT" -> "abort" [] reg = "CTRL/STAT" -> "abort"
      [] reg = "RDBUFF" -> "rdbuff" [] reg = "DPIDR" -> "dpidr"
      [] reg = "DLCR" -> "dlcr" [] reg = "TARGETID" -> "targetid"
      [] reg = "DLPIDR" -> "dlpidr" [] reg = "EVENTSTAT" -> "eventstat"
      [] OTHER -> "none"

\* ADIv5DP.decodeTransaction: the attribute a DP register other than SELECT
\* is stored in
DPField(reg) ==
    CASE reg = "ABORT" -> "abort" [] reg = "CTRL/STAT" -> "ctrlstat"
      [] reg = "RDBUFF" -> "rdbuff" [] reg = "DPIDR" -> "dpidr"
      [] reg = "DLCR" -> "dlcr" [] reg = "TARGETID" -> "targetid"
      [] reg = "DLPIDR" -> "dlpidr" [] reg = "EVENTSTAT" -> "eventstat"
      [] OTHER -> "none"

\* transaction.register != 'IDR' compares the tuple (addr, reg) with a str:
\* the two are never equal.
RegisterIsIDR(register) == FALSE

\* ADIv5AP.fromID: an ADIv5JTAGAP for a JTAG-AP, whose __init__ raises
\* TypeError on tuple(0, 0, 0, 0); None for every other kind.
fromID(value) ==
    IF ADIv5APIdentReg(value) = "jtag" THEN [raised |-> "TypeError", ap |-> None]
    ELSE [raised |-> "none", ap |-> None]

\* A variant of the DP branch that lets a register it does not know pass.
decodeDPTransactionLenient(rec, tx) ==
    IF tx.register[2] = "SELECT"
    THEN [rec |-> [rec EXCEPT !.select = changeValue(tx.data)], raised |-> "none"]
    ELSE IF DPField(tx.register[2]) # "none"
    THEN [rec |-> [rec EXCEPT ![DPField(tx.register[2])] = tx.data],
          raised |-> "none"]
    ELSE [rec |-> rec, raised |-> "none"]

\* ADIv5DP.decodeTransaction, for a transaction whose target is the DP
decodeDPTransaction(rec, tx) ==
    IF tx.register[2] = "SELECT"
    THEN [rec |-> [rec EXCEPT !.select = changeValue(tx.data)], raised |-> "none"]
    ELSE IF DPField(tx.register[2]) # "none"
    THEN [rec |-> [rec EXCEPT ![DPField(tx.register[2])] = tx.data],
          raised |-> "none"]
    ELSE [rec |-> rec, raised |-> "ValueError"]

\* ADIv5DP.decodeTransaction, for a transaction whose target is an AP
decodeAPTransaction(rec, tx) ==
    IF rec.select.currentAP \in DOMAIN rec.ap THEN [rec |-> rec, raised |-> "none"]
    ELSE IF ~RegisterIsIDR(tx.register) THEN [rec |-> rec, raised |-> "none"]
    ELSE [rec |-> IF fromID(tx.data).raised # "none" THEN rec
                  ELSE [rec EXCEPT !.ap =
                           [a \in {rec.select.currentAP} |-> fromID(tx.data).ap]],
          raised |-> fromID(tx.data).raised]

\* ADIv5DP.decodeTransaction: the DP afterwards and the exception raised
decodeTransaction(rec, tx) ==
    IF tx.target = "dp" THEN decodeDPTransaction(rec, tx)
    ELSE decodeAPTransaction(rec, tx)

\* A variant of Failed that takes a WAIT for a success.
FailedUnlessWait(tx) == tx.ack \notin {"ok", "wait"}

\* transaction.ack != ADIv5Ack.ok
Failed(tx) == tx.ack # "ok"

\* A variant of DPRecord that makes a new DP instance for every transaction.
DPRecordAnew(known, d) == ADIv5DP

\* self.dp.get(transaction.dp), and a new ADIv5DP when there is none
DPRecord(known, d) == IF d \in DOMAIN known THEN known[d] ELSE ADIv5DP

\* The annotation decode() puts for a transaction.
TrackerAnnotation(count, tx) ==
    [line |-> IF count % 2 = 0 THEN "TRANS_EVEN" ELSE "TRANS_ODD",
     dp |-> tx.dp, target |-> tx.target, rnw |-> tx.rnw,
     addr |-> tx.register[1], data |-> tx.data]

\* The DP indices, the data values (0x00000040, 0x01000000 and the ID of a
\* MEM-AP) and the transactions decode() is given.
DPIndices == {0, 1}
TrackerData == { {6}, {24} }
MemAPID == HexBits(<<0, 0, 0, 1, 0, 0, 0, 1>>)

Transact(op, d, addr, reg, literal, value) ==
    [op |-> op, dp |-> d, addr |-> addr, reg |-> reg, ack |-> literal, data |-> value]

DPAccesses ==
    { <<"DP_WRITE", 0, "ABORT">>, <<"DP_READ", 4, "CTRL/STAT">>,
      <<"DP_WRITE", 4, "CTRL/STAT">>, <<"DP_WRITE", 8, "SELECT">>,
      <<"DP_READ", 8, "SELECT">>, <<"DP_READ", 12, "RDBUFF">>,
      <<"DP_READ", 0, "DPIDR">>, <<"DP_WRITE", 4, "DLCR">>,
      <<"DP_READ", 4, "TARGETID">>, <<"DP_READ", 4, "DLPIDR">>,
      <<"DP_READ", 4, "EVENTSTAT">>, <<"DP_WRITE", 0, "INVALID">> }

APAccesses ==
    { <<"AP_READ", 252, "IDR">>, <<"AP_WRITE", 4, "TAR (low)">>,
      <<"AP_WRITE", 8, "TAR (high)">>, <<"AP_READ", 64, "INVALID (40)">> }

Transactions ==
    { Transact(a[1], d, a[2], a[3], "OK", x) :
          a \in DPAccesses, d \in DPIndices, x \in TrackerData }
    \cup
    { Transact(a[1], 0, a[2], a[3], l, {24}) :
          a \in { <<"DP_WRITE", 4, "CTRL/STAT">>, <<"DP_WRITE", 8, "SELECT">> },
          l \in {"WAIT", "FAULT", "NO-RESPONSE"} }
    \cup
    { Transact(a[1], 0, a[2], a[3], l, x) :
          a \in APAccesses, l \in {"OK", "WAIT"}, x \in {MemAPID, {6}} }
    \cup
    { Transact("DP_READ", 0, 4, "CTRL/STAT", "ok", {6}) }

InitTracker ==
    /\ ChainStart
    /\ TapAbsent
    /\ TrackerStart
    /\ state = "unknown"
    /\ request = {} /\ ack = {} /\ data = {}
    /\ computedParity = 0 /\ actualParity = 0 /\ bits = 0
    /\ ann = NoAnn /\ py = NoPy
    /\ clk = 0 /\ line = 0
    /\ wire = <<>> /\ wirePhase = "none"
    /\ alertPos = 0 /\ flips = 0 /\ lastAck = "none"
    /\ highRun = 0 /\ runUnk = FALSE /\ dwEdges = 0

\* Decoder.decode(beginSample, endSample, data)
Decode ==
    \E t \in Transactions :
        /\ trackRaised = "none"
        /\ transactCount < MaxTransactions
        /\ transacted' = t
        /\ IF t.ack \notin AckLiterals
           THEN /\ trackRaised' = "ValueError"
                /\ trackAnn' = <<>>
                /\ UNCHANGED <<dp, transactCount>>
           ELSE /\ transactCount' = transactCount + 1
                /\ trackAnn' = <<TrackerAnnotation(transactCount, TrackerTransaction(t))>>
                /\ IF Failed(TrackerTransaction(t))
                   THEN UNCHANGED <<dp, trackRaised>>
                   ELSE LET stored(done) ==
                                /\ dp' = [d \in DOMAIN dp \cup {t.dp} |->
                                            IF d = t.dp THEN done.rec ELSE dp[d]]
                                /\ trackRaised' = done.raised
                        IN  stored(decodeTransaction(DPRecord(dp, t.dp),
                                                     TrackerTransaction(t)))
        /\ UNCHANGED <<swdVars, chainVars, tapVars>>

NextTracker == Decode

SpecTracker == InitTracker /\ [][NextTracker]_vars

\* The attributes of an ADIv5DP that hold a register value.
DPValueFields ==
    {"abort", "ctrlstat", "rdbuff", "dpidr", "dlcr", "targetid", "dlpidr", "eventstat"}

\* The field of the DP record that stands for a DP register name.
NamedField(reg) ==
    CASE reg = "ABORT" -> "abort" [] reg = "CTRL/STAT" -> "ctrlstat"
      [] reg = "RDBUFF" -> "rdbuff" [] reg = "DPIDR" -> "dpidr"
      [] reg = "DLCR" -> "dlcr" [] reg = "TARGETID" -> "targetid"
      [] reg = "DLPIDR" -> "dlpidr" [] reg = "EVENTSTAT" -> "eventstat"

\* The record of DP d before a transaction: the one held, or the record of
\* a DP of which nothing is known yet.
Before(d) == IF d \in DOMAIN dp THEN dp[d] ELSE ADIv5DP

\* decode() was given t, with an ack that is one of the four literals.
Given(t) == t # <<>> /\ t.ack \in AckLiterals

\* The DP records other than that of DP d are left as they were.
OthersKept(d) ==
    /\ DOMAIN dp \subseteq DOMAIN dp'
    /\ DOMAIN dp' \subseteq DOMAIN dp \cup {d}
    /\ \A e \in DOMAIN dp \ {d} : dp'[e] = dp[e]

\* C31: the SELECT shadow of a DP changes only as the effect of a write to
\* SELECT that was acknowledged OK; a SELECT write answered WAIT or FAULT,
\* and any read, leave it as it was.
C31_SelectOnlyByWrite ==
    [][\A d \in DOMAIN dp' :
          dp'[d].select # Before(d).select =>
              /\ transacted'.dp = d
              /\ transacted'.op = "DP_WRITE"
              /\ transacted'.reg = "SELECT"
              /\ transacted'.ack = "OK"]_vars

\* C32: a transaction whose ack is WAIT, FAULT or NO-RESPONSE is annotated
\* and leaves the model as it was: no DP record is created, and no DP
\* register, SELECT shadow or AP record changes.
C32_FailedLeavesModel ==
    [][(Given(transacted') /\ transacted'.ack # "OK") =>
          /\ dp' = dp
          /\ trackRaised' = "none"
          /\ Len(trackAnn') = 1
          /\ trackAnn'[1].dp = transacted'.dp
          /\ trackAnn'[1].data = transacted'.data
          /\ transactCount' = transactCount + 1]_vars

\* A write of CTRL/STAT of DP 0 was answered FAULT: DP 0 has no record,
\* while DP 1, known from an earlier transaction, keeps its own.
C32_Witness ==
    /\ Given(transacted)
    /\ transacted.ack = "FAULT"
    /\ transacted.dp = 0
    /\ DOMAIN dp = {1}
    /\ dp[1].ctrlstat = {6}
    /\ Len(trackAnn) = 1

\* C33 as stated: a DP record for index d exists from the first transaction
\* seen for DP index d onwards.
C33_RecordFromFirstSeen ==
    Given(transacted) => transacted.dp \in DOMAIN dp

\* C33, amended: a DP record for index d exists from the first transaction
\* for DP index d that was acknowledged OK onwards, and not before; there
\* is one record per DP index, and once created a record is not replaced
\* or removed: the next transaction works on the record held.
C33_RecordFromFirstOK ==
    [][/\ DOMAIN dp \subseteq DOMAIN dp'
       /\ \A d \in DOMAIN dp' \ DOMAIN dp :
              Given(transacted') /\ transacted'.dp = d /\ transacted'.ack = "OK"
       /\ (Given(transacted') /\ transacted'.ack = "OK") => transacted'.dp \in DOMAIN dp'
       /\ \A d \in DOMAIN dp :
              IF Given(transacted') /\ transacted'.ack = "OK" /\ transacted'.dp = d
              THEN dp'[d] = decodeTransaction(dp[d], TrackerTransaction(transacted')).rec
              ELSE dp'[d] = dp[d]]_vars

\* DP 1 got its record from an OK transaction, a transaction for DP 0 was
\* answered WAIT, and a later OK transaction for DP 1 found the record.
C33_Witness ==
    /\ transactCount = 3
    /\ Given(transacted)
    /\ transacted.dp = 1 /\ transacted.ack = "OK" /\ transacted.reg = "RDBUFF"
    /\ DOMAIN dp = {1}
    /\ dp[1].rdbuff = {6}
    /\ dp[1].ctrlstat = {24}

\* C34: for a MEM-AP a write to the low half of TAR replaces bits 0..31 of
\* the 64-bit field and leaves bits 32..63 as they were, and a write to the
\* high half replaces bits 32..63 and leaves bits 0..31: after the ID of a
\* MEM-AP was read OK, an OK write of TAR is held by the record of the AP.
C34_TarHalfWrites ==
    [][(/\ Given(transacted)
        /\ transacted.op = "AP_READ" /\ transacted.reg = "IDR" /\ transacted.ack = "OK"
        /\ ADIv5APIdentReg(transacted.data) = "mem"
        /\ Given(transacted')
        /\ transacted'.dp = transacted.dp
        /\ transacted'.op = "AP_WRITE" /\ transacted'.ack = "OK"
        /\ transacted'.reg \in {"TAR (low)", "TAR (high)"}) =>
          LET held(rec) ==
                  /\ rec.select.currentAP \in DOMAIN rec.ap
                  /\ rec.ap[rec.select.currentAP] # None
                  /\ IF transacted'.reg = "TAR (low)"
                     THEN rec.ap[rec.select.currentAP].tar \cap (0..31) = transacted'.data
                     ELSE Field(rec.ap[rec.select.currentAP].tar, 32, 32) = transacted'.data
          IN  held(dp'[transacted'.dp])]_vars

\* C35: an OK-acked DP transaction naming one of ABORT, CTRL/STAT, RDBUFF,
\* DPIDR, DLCR, TARGETID, DLPIDR, EVENTSTAT sets that field of the record of
\* the addressed DP to the data of the transaction and leaves every other
\* field of the record and every other DP record as they were.
C35_NamedFieldSet ==
    [][(/\ Given(transacted')
        /\ transacted'.ack = "OK"
        /\ transacted'.op \in {"DP_READ", "DP_WRITE"}
        /\ transacted'.reg \in {"ABORT", "CTRL/STAT", "RDBUFF", "DPIDR", "DLCR",
                                "TARGETID", "DLPIDR", "EVENTSTAT"}) =>
          /\ trackRaised' = "none"
          /\ OthersKept(transacted'.dp)
          /\ dp'[transacted'.dp][NamedField(transacted'.reg)] = transacted'.data
          /\ \A f \in DPValueFields \ {NamedField(transacted'.reg)} :
                 dp'[transacted'.dp][f] = Before(transacted'.dp)[f]
          /\ dp'[transacted'.dp].select = Before(transacted'.dp).select
          /\ dp'[transacted'.dp].ap = Before(transacted'.dp).ap]_vars

\* A DP_READ of CTRL/STAT with data 0x40 on DP 0 gave DP0.ctrlstat = 0x40,
\* and the ABORT value written before is still there.
C35_Witness ==
    /\ Given(transacted)
    /\ transacted.op = "DP_READ" /\ transacted.reg = "CTRL/STAT"
    /\ transacted.dp = 0 /\ transacted.ack = "OK" /\ transacted.data = {6}
    /\ 0 \in DOMAIN dp
    /\ dp[0].ctrlstat = {6}
    /\ dp[0].abort = {24}

\* C36: after an OK-acked AP read of IDR while SELECT selects AP index a on
\* DP d, an AP record exists for (d, a), of the kind its IDR value stands
\* for.
C36_IDRMakesAPRecord ==
    (/\ Given(transacted)
     /\ transacted.op = "AP_READ" /\ transacted.reg = "IDR" /\ transacted.ack = "OK") =>
        /\ transacted.dp \in DOMAIN dp
        /\ dp[transacted.dp].select.currentAP \in DOMAIN dp[transacted.dp].ap

\* C37: an OK-acked DP transaction whose register name is not that of a DP
\* register raises an error and changes no DP field, whereas an AP access
\* to an address that is not mapped is decoded to a placeholder name and
\* goes through without error.
C37_UnknownRegisters ==
    [][/\ (/\ Given(transacted')
           /\ transacted'.ack = "OK"
           /\ transacted'.op \in {"DP_READ", "DP_WRITE"}
           /\ transacted'.reg = "INVALID") =>
             /\ trackRaised' = "ValueError"
             /\ OthersKept(transacted'.dp)
             /\ dp'[transacted'.dp] = Before(transacted'.dp)
       /\ (/\ Given(transacted')
           /\ transacted'.op \in {"AP_READ", "AP_WRITE"}) =>
             /\ trackRaised' = "none"
             /\ decodeUnknownAPReg(read, 64) = RegName("INVALID", 64)
             /\ decodeUnknownAPReg(write, 64) = RegName("INVALID", 64)]_vars

\* An OK write of a register that is no DP register raised ValueError, and
\* the record of the DP still holds the CTRL/STAT value set before.
C37_Witness ==
    /\ trackRaised = "ValueError"
    /\ Given(transacted)
    /\ transacted.reg = "INVALID"
    /\ transacted.dp \in DOMAIN dp
    /\ dp[transacted.dp].ctrlstat = {6}

====
